---- MODULE Spec2Model ----
(***************************************************************************)
(* A model of candor: the per-channel statistics engine (candor/src/       *)
(* stats.rs) and the PEAK trace parser (candor-io/src/trc.rs).             *)
(*                                                                         *)
(* Time is counted in milliseconds.  An Option<T> is the empty tuple       *)
(* (None) or a one-element tuple (Some).  Slot indices are 0-based as in   *)
(* the source; the TLA+ sequence `messages` is 1-based, so slot i is       *)
(* messages[i + 1].                                                        *)
(***************************************************************************)
EXTENDS Integers, Sequences, FiniteSets, Bags, TLC

VARIABLES
    \* ---- Stats (candor/src/stats.rs) ----
    baud, bytes, packets, load, pps,
    messages, ids, bytes_accum, packet_accum, dbcs, sorted, ordering, time,
    now,        \* the monotonic clock read by Instant::now()
    seen,       \* history: the identifiers handed to process_packet so far
    \* ---- the steady-input environment of the smoothing ----
    steadyFrames,   \* frames that arrive before every applied tick
    steadyBytes,    \* payload bytes that arrive before every applied tick
    phase,          \* "arrive" | "tick" in the steady environment, else "free"
    ticksAtSteady,  \* history: applied ticks that started at the steady value
    \* ---- TrcParser::new_from_lines (candor-io/src/trc.rs) ----
    version, columns, first_time,
    trc_packets,        \* the local vector `packets`
    sync_time,          \* the argument sync_time
    overflow_checks,    \* the build: TRUE when integer overflow panics
    returned,           \* the value new_from_lines has returned, if any
    expected,   \* history: what each valid row fed so far stands for
    rows,       \* history: the row behind each element of trc_packets
    fault,      \* history: the kind of the first line fed that is not well formed
    declared,   \* history: the dialect and column layout the directives declared
    \* ---- Stats::signal_text (candor/src/stats.rs) ----
    sig,            \* the argument sig: the signal of the database
    sig_bytes,      \* packet.bytes
    encoded,        \* history: the integer the payload holds in the field of sig
    sig_text,       \* what signal_text returned, if it was called
    mirror_text,    \* the same for the signal of the other byte order
    \* ---- calls of Stats::periodic ----
    skipped,        \* history: the last call of periodic returned at its guard
    calls,          \* history: the calls of process_packet made so far
    payload_sum,    \* history: the payload bytes of the frames of those calls
    arith,          \* how the arithmetic of the last applied tick ended
    \* ---- App::run (candor-tui/src/main.rs) ----
    loop_pc,        \* where the consumer loop stands
    channel,        \* the index `for channel in self.channels` has reached
    stats_age,      \* ms since the instant held in stats_time
    now_age,        \* ms since the instant held in now (line 213)
    tick_age,       \* per channel: ms since the instant held in stats.time
    outcome,        \* history: per channel, what the last call of periodic did
    waited,         \* history: how long the last recv_timeout blocked, in ms
    quiet,          \* the producers and the keyboard have stopped for good
    \* ---- the threads of App::new and of the sources ----
    producers,      \* per source thread: where it stands and what it holds
    ingest,         \* the packets in the channel tx_packets -> rx_packets
    ingest_open,    \* the receiver rx_packets has not been dropped
    held,           \* the packet the forwarding thread has received, if any
    event_queue,    \* the events in the channel tx_events -> rx_events
    keys,           \* history: the key events the input thread has sent
    handled,        \* history: the packets given to process_packet, in order
    failures,       \* history: per source thread, the sends that failed
    channels,       \* the length of the vector `channels` of App::new
    app_pc          \* where the main thread stands in App::new and App::run

statsVars == <<baud, bytes, packets, load, pps, messages, ids, bytes_accum,
               packet_accum, dbcs, sorted, ordering, time, now, seen>>

steadyVars == <<steadyFrames, steadyBytes, phase, ticksAtSteady>>

parseVars == <<version, columns, first_time, trc_packets, sync_time,
               overflow_checks, returned, expected, rows, fault, declared>>

decodeVars == <<sig, sig_bytes, encoded, sig_text, mirror_text>>

callVars == <<skipped, calls, payload_sum>>

loopVars == <<loop_pc, channel, stats_age, now_age, tick_age, outcome, waited,
              quiet>>

pipeVars == <<producers, ingest, ingest_open, held, event_queue, keys, handled,
              failures, channels, app_pc>>

appVars == <<arith, loopVars, pipeVars>>

vars == <<statsVars, steadyVars, parseVars, decodeVars, callVars, appVars>>

----------------------------------------------------------------------------
(* Bounds of the model *)

\* process_packet calls explored in one behaviour
MaxPackets == 3
\* the clock runs up to MaxHalfSeconds half seconds
MaxHalfSeconds == 5

----------------------------------------------------------------------------
(* Values *)

None == << >>
Some(x) == <<x>>

Min(a, b) == IF a < b THEN a ELSE b

\* How far the clock moves between two events
Steps == {500, 1000}

\* Baud rates of the channel
Bauds == {1000}

\* Definition tables loaded before the first frame (each the set of its ids)
DbcChoices == {<< >>, <<{256}, {256, 257}>>}

\* the value of `returned` while new_from_lines is still in its loop
Running == [tag |-> "running"]

\* periodic has not been called
NoCall == skipped = FALSE /\ calls = 0 /\ payload_sum = 0

\* App::run is not running
NoLoop ==
    /\ loop_pc = "exit" /\ channel = 0 /\ stats_age = 0 /\ now_age = 0
    /\ tick_age = << >> /\ outcome = << >> /\ waited = 0 /\ quiet = TRUE

\* no thread runs
NoPipe ==
    /\ producers = << >> /\ ingest = << >> /\ ingest_open = FALSE
    /\ held = << >> /\ event_queue = << >> /\ keys = 0
    /\ handled = << >> /\ failures = << >>
    /\ channels = 0 /\ app_pc = "none"

\* nothing else of the application runs
NoApp == arith = "none" /\ NoLoop /\ NoPipe

\* no trace is being parsed
\* signal_text is not called
NoDecode ==
    /\ sig = << >> /\ sig_bytes = << >> /\ encoded = 0
    /\ sig_text = << >> /\ mirror_text = << >>

NoParse ==
    /\ version = "V1_0" /\ columns = "" /\ first_time = None
    /\ trc_packets = << >> /\ sync_time = FALSE /\ overflow_checks = FALSE
    /\ returned = Running
    /\ expected = << >> /\ rows = << >> /\ fault = None
    /\ declared = [dialect |-> "V1_0", layout |-> <<FALSE, FALSE>>]

\* Packet::default()
DefaultPacket ==
    [source |-> 0, time |-> None, extended |-> FALSE, id |-> 0, bytes |-> << >>]

\* Message::new(packet, dbc)
MessageNew(packet, dbc) ==
    [source |-> packet.source, dbc |-> dbc, count |-> 0, delta |-> 0,
     missing |-> 0, current |-> DefaultPacket, previous |-> DefaultPacket,
     count_accum |-> 0]

\* The frames a producer can hand over at clock value t: a standard frame
\* without payload, an extended frame with eight bytes, both stamped at
\* reception, and a one-byte frame that carries no timestamp
PacketsAt(t) ==
    { [source |-> 0, time |-> Some(t), extended |-> FALSE, id |-> 0, bytes |-> << >>],
      [source |-> 0, time |-> Some(t), extended |-> TRUE, id |-> 256,
       bytes |-> <<85, 0, 0, 0, 0, 0, 0, 255>>],
      [source |-> 0, time |-> None, extended |-> TRUE, id |-> 257, bytes |-> <<1>>] }

----------------------------------------------------------------------------
(* Stats::process_packet *)

\* the last loaded table that holds the identifier
DbcFind_Last(tables, id) ==
    LET hits == {i \in 1..Len(tables) : id \in tables[i]}
    IN IF hits = {} THEN None
       ELSE Some((CHOOSE i \in hits : \A j \in hits : i >= j) - 1)

\* the first loaded table that holds the identifier
DbcFind(tables, id) ==
    LET hits == {i \in 1..Len(tables) : id \in tables[i]}
    IN IF hits = {} THEN None
       ELSE Some((CHOOSE i \in hits : \A j \in hits : i <= j) - 1)

\* BinaryHeap<u32>: a bag of identifiers; pop takes the greatest
HeapPush(heap, id) == heap (+) SetToBag({id})
\* a heap that yields the least element first
HeapTop_Least(heap) == CHOOSE x \in BagToSet(heap) : \A y \in BagToSet(heap) : x <= y
HeapTop(heap) == CHOOSE x \in BagToSet(heap) : \A y \in BagToSet(heap) : y <= x
HeapPop(heap) == heap (-) SetToBag({HeapTop(heap)})

RECURSIVE HeapOf(_, _)
HeapOf(msgs, k) ==
    IF k = 0 THEN EmptyBag ELSE HeapPush(HeapOf(msgs, k - 1), msgs[k].current.id)

\* Vec::resize(len, 0)
Resize(v, len) ==
    [k \in 1..len |-> IF k <= Len(v) THEN v[k] ELSE 0]

\* the loop `for index in (0..ordering.len()).rev()`: fills slot k - 1
RECURSIVE FillOrdering(_, _, _, _)
FillOrdering(ord, heap, idmap, k) ==
    IF k = 0 THEN [ordering |-> ord, ids |-> idmap]
    ELSE LET top == HeapTop(heap)
             idmap1 == IF top \in DOMAIN idmap THEN idmap ELSE idmap @@ (top :> 0)
         IN FillOrdering([ord EXCEPT ![k] = idmap1[top]], HeapPop(heap), idmap1, k - 1)

\* the identifiers the ordering is sorted by
SortKeys(msgs) == HeapOf(msgs, Len(msgs))

\* lines 165-176
Rebuild(msgs, ord, idmap) ==
    FillOrdering(Resize(ord, Len(msgs)), SortKeys(msgs), idmap, Len(msgs))

\* the period is taken from the gap to the previous frame of the message
UpdateMessage_GapAsDelta(m, packet) ==
    [m EXCEPT !.count = @ + 1, !.count_accum = @ + 1,
              !.previous = m.current, !.current = packet, !.missing = 0,
              !.delta = IF packet.time # None /\ m.current.time # None
                        THEN packet.time[1] - m.current.time[1] ELSE @]

\* the arrival is not counted for the current tick
UpdateMessage_NoAccum(m, packet) ==
    [m EXCEPT !.count = @ + 1,
              !.previous = m.current, !.current = packet, !.missing = 0]

\* lines 156-163
UpdateMessage(m, packet) ==
    [m EXCEPT !.count = @ + 1, !.count_accum = @ + 1,
              !.previous = m.current, !.current = packet, !.missing = 0]

\* every new identifier is given slot 0
NewIndex_Zero(msgs) == 0

\* line 153: self.messages.len() - 1, after the push
NewIndex(msgs) == Len(msgs) - 1

ProcessPacket(packet) ==
    /\ packets < MaxPackets
    /\ LET isNew == packet.id \notin DOMAIN ids
           msgs1 == IF isNew
                    THEN Append(messages, MessageNew(packet, DbcFind(dbcs, packet.id)))
                    ELSE messages
           ids1 == IF isNew THEN ids @@ (packet.id :> NewIndex(msgs1)) ELSE ids
           sorted1 == IF isNew THEN FALSE ELSE sorted
           index == ids1[packet.id]
           msgs2 == [msgs1 EXCEPT ![index + 1] = UpdateMessage(@, packet)]
           r == IF sorted1 THEN [ordering |-> ordering, ids |-> ids1]
                ELSE Rebuild(msgs2, ordering, ids1)
       IN /\ packets' = packets + 1
          /\ packet_accum' = packet_accum + 1
          /\ bytes' = bytes + Len(packet.bytes)
          /\ bytes_accum' = bytes_accum + Len(packet.bytes)
          /\ messages' = msgs2
          /\ ids' = r.ids
          /\ ordering' = r.ordering
          /\ sorted' = TRUE
          /\ seen' = seen \cup {packet.id}
    /\ skipped' = FALSE
    /\ calls' = calls + 1
    /\ payload_sum' = payload_sum + Len(packet.bytes)
    /\ UNCHANGED <<baud, load, pps, dbcs, time, now>>
    /\ UNCHANGED <<steadyVars, parseVars, appVars>>
    /\ UNCHANGED decodeVars

\* Stats::dbc_message(message): the definition of the message, named by its
\* table and its identifier, if the slot has a table and the table holds it
dbc_message(tables, message) ==
    IF message.dbc # None
    THEN LET dbc == message.dbc[1]
         IN IF dbc < Len(tables)
            THEN IF message.current.id \in tables[dbc + 1]
                 THEN Some([table |-> dbc, id |-> message.current.id])
                 ELSE None
            ELSE None
    ELSE None

----------------------------------------------------------------------------
(* Stats::periodic *)

\* the division by the baud rate is taken before the multiplication by 100
LoadUpdate_DivFirst(l, b, bd) == (l + (100 * (((b * 10) + 5) \div bd))) \div 2

\* line 107-108
LoadUpdate(l, b, bd) == (l + ((100 * ((b * 10) + 5)) \div bd)) \div 2

\* the sum is not halved
PpsUpdate_Sum(p, n) == p + n

\* line 109
PpsUpdate(p, n) == (p + n) \div 2

\* the seconds are rounded to the nearest instead of truncated
AsSecs_Rounded(ms) == (ms + 500) \div 1000

\* Duration::as_secs
AsSecs(ms) == ms \div 1000

\* the expiry branch marks the message but keeps its period
PeriodicMessage_KeepsDelta(m, t) ==
    IF m.count_accum > 0
    THEN [m EXCEPT !.delta = 1000 \div m.count_accum, !.count_accum = 0]
    ELSE LET tm == IF m.current.time = None THEN t - 1000 ELSE m.current.time[1]
             expired == Min(m.delta * 3, 2000)
         IN IF t - tm > expired THEN [m EXCEPT !.missing = t - tm] ELSE m

\* the period is taken from the cumulative arrival count
PeriodicMessage_ByCount(m, t) ==
    IF m.count_accum > 0
    THEN [m EXCEPT !.delta = 1000 \div m.count, !.count_accum = 0]
    ELSE LET tm == IF m.current.time = None THEN t - 1000 ELSE m.current.time[1]
             expired == Min(m.delta * 3, 2000)
         IN IF t - tm > expired
            THEN [m EXCEPT !.missing = t - tm, !.delta = 0]
            ELSE m

\* lines 115-129, for one message, at the instant t the tick sampled
PeriodicMessage(m, t) ==
    IF m.count_accum > 0
    THEN [m EXCEPT !.delta = 1000 \div m.count_accum, !.count_accum = 0]
    ELSE LET tm == IF m.current.time = None THEN t - 1000 ELSE m.current.time[1]
             expired == Min(m.delta * 3, 2000)
         IN IF t - tm > expired
            THEN [m EXCEPT !.missing = t - tm, !.delta = 0]
            ELSE m

\* lines 98-103: the tick applies only a full second after the last applied one
TickApplies == AsSecs(now - (IF time = None THEN now ELSE time[1])) >= 1

Periodic ==
    IF ~TickApplies
    THEN /\ skipped' = TRUE
         /\ UNCHANGED <<calls, payload_sum>>
         /\ UNCHANGED <<statsVars, steadyVars, parseVars, decodeVars, appVars>>
    ELSE /\ skipped' = FALSE
         /\ UNCHANGED <<calls, payload_sum>>
         /\ time' = Some(now)
         /\ load' = LoadUpdate(load, bytes_accum, baud)
         /\ pps' = PpsUpdate(pps, packet_accum)
         /\ bytes_accum' = 0
         /\ packet_accum' = 0
         /\ messages' = [i \in DOMAIN messages |-> PeriodicMessage(messages[i], now)]
         /\ UNCHANGED <<baud, bytes, packets, ids, dbcs, sorted, ordering, now, seen>>
         /\ UNCHANGED <<steadyVars, parseVars, decodeVars, appVars>>

\* the clock moves on
Advance(d) ==
    /\ now + d <= MaxHalfSeconds * 500
    /\ now' = now + d
    /\ UNCHANGED <<baud, bytes, packets, load, pps, messages, ids, bytes_accum,
                   packet_accum, dbcs, sorted, ordering, time, seen>>
    /\ skipped' = FALSE
    /\ UNCHANGED <<calls, payload_sum>>
    /\ UNCHANGED <<steadyVars, parseVars, appVars>>
    /\ UNCHANGED decodeVars

----------------------------------------------------------------------------
(* Stats::new(baud), with the definition tables of add_dbc loaded *)

Init ==
    /\ baud \in Bauds
    /\ bytes = 0 /\ packets = 0 /\ load = 0 /\ pps = 0
    /\ messages = << >>
    /\ ids = << >>
    /\ bytes_accum = 0 /\ packet_accum = 0
    /\ dbcs \in DbcChoices
    /\ sorted = FALSE
    /\ ordering = << >>
    /\ now = 0
    /\ time = Some(0)
    /\ seen = {}
    /\ steadyFrames = 0 /\ steadyBytes = 0 /\ phase = "free" /\ ticksAtSteady = 0
    /\ NoCall /\ NoApp
    /\ NoParse
    /\ NoDecode

Next ==
    \/ \E p \in PacketsAt(now) : ProcessPacket(p)
    \/ Periodic
    \/ \E d \in Steps : Advance(d)

Spec == Init /\ [][Next]_vars

----------------------------------------------------------------------------
(* The engine over an unbounded run.  Instants are kept relative to the     *)
(* present: the clock reads Horizon for ever, and when time passes every    *)
(* stored instant moves back by as much.  An instant Horizon or more in the *)
(* past is kept at 0: every comparison of the engine is against at most 2 s. *)

\* the reading of the clock, in ms
Horizon == 3000

\* an instant after d more ms have passed
Shift(t, d) ==
    IF t = None THEN None ELSE Some(IF t[1] > d THEN t[1] - d ELSE 0)

\* d ms pass
Elapse(d) ==
    /\ time' = Shift(time, d)
    /\ messages' = [i \in DOMAIN messages |->
                      [messages[i] EXCEPT !.current.time = Shift(@, d),
                                          !.previous.time = Shift(@, d)]]
    /\ skipped' = FALSE
    /\ UNCHANGED <<calls, payload_sum>>
    /\ UNCHANGED <<baud, bytes, packets, load, pps, ids, bytes_accum,
                   packet_accum, dbcs, sorted, ordering, now, seen>>
    /\ UNCHANGED <<steadyVars, parseVars, decodeVars, appVars>>

\* Stats::new(baud), no definition table loaded
StaleInit ==
    /\ baud \in Bauds
    /\ bytes = 0 /\ packets = 0 /\ load = 0 /\ pps = 0
    /\ messages = << >>
    /\ ids = << >>
    /\ bytes_accum = 0 /\ packet_accum = 0
    /\ dbcs = << >>
    /\ sorted = FALSE
    /\ ordering = << >>
    /\ now = Horizon
    /\ time = Some(Horizon)
    /\ seen = {}
    /\ steadyFrames = 0 /\ steadyBytes = 0 /\ phase = "free" /\ ticksAtSteady = 0
    /\ NoCall /\ NoApp
    /\ NoParse
    /\ NoDecode

StaleNext ==
    \/ \E p \in PacketsAt(now) : ProcessPacket(p)
    \/ Periodic
    \/ \E d \in Steps : Elapse(d)

StaleSpec == StaleInit /\ [][StaleNext]_vars

\* time passes and the consumer loop keeps calling periodic; the producers
\* may stop at any moment
StaleFair ==
    StaleInit /\ [][StaleNext]_vars
        /\ WF_vars(Periodic) /\ WF_vars(\E d \in Steps : Elapse(d))

----------------------------------------------------------------------------
(* The smoothing under a steady input: before every applied tick the same  *)
(* steadyFrames frames with steadyBytes payload bytes arrive.  Only the    *)
(* accumulators, load and pps take part; the cumulative totals, the        *)
(* messages and the clock are left out of this environment.                *)

\* starting values of load and pps
MaxStartLoad == 30
MaxStartPps == 5
\* frames per tick
MaxSteadyFrames == 3

\* payload lengths of the frames of a steady input
SteadyLens == {0, 1, 8}

\* the value 100 x (10 b + 5) / baud the load is meant to settle at
SteadyLoad == (100 * ((steadyBytes * 10) + 5)) \div baud

AtSteady == pps = steadyFrames /\ load = SteadyLoad

SteadyInit ==
    /\ baud \in Bauds
    /\ load \in 0..MaxStartLoad
    /\ pps \in 0..MaxStartPps
    /\ \E n \in 0..MaxSteadyFrames, l \in SteadyLens :
          steadyFrames = n /\ steadyBytes = n * l
    /\ phase = "arrive"
    /\ ticksAtSteady = 0
    /\ NoCall /\ NoApp
    /\ bytes = 0 /\ packets = 0
    /\ messages = << >> /\ ids = << >>
    /\ bytes_accum = 0 /\ packet_accum = 0
    /\ dbcs = << >> /\ sorted = FALSE /\ ordering = << >>
    /\ now = 0 /\ time = Some(0) /\ seen = {}
    /\ NoParse
    /\ NoDecode

\* steadyFrames calls of process_packet, lines 134-139
SteadyArrive ==
    /\ phase = "arrive"
    /\ packet_accum' = packet_accum + steadyFrames
    /\ bytes_accum' = bytes_accum + steadyBytes
    /\ phase' = "tick"
    /\ UNCHANGED <<baud, bytes, packets, load, pps, messages, ids, dbcs, sorted,
                   ordering, time, now, seen, steadyFrames, steadyBytes,
                   ticksAtSteady>>
    /\ UNCHANGED parseVars
    /\ UNCHANGED <<decodeVars, callVars, appVars>>

\* an applied periodic, lines 106-111
SteadyTick ==
    /\ phase = "tick"
    /\ load' = LoadUpdate(load, bytes_accum, baud)
    /\ pps' = PpsUpdate(pps, packet_accum)
    /\ bytes_accum' = 0
    /\ packet_accum' = 0
    /\ phase' = "arrive"
    /\ ticksAtSteady' = IF AtSteady THEN Min(ticksAtSteady + 1, 2) ELSE ticksAtSteady
    /\ UNCHANGED <<baud, bytes, packets, messages, ids, dbcs, sorted, ordering,
                   time, now, seen, steadyFrames, steadyBytes>>
    /\ UNCHANGED parseVars
    /\ UNCHANGED <<decodeVars, callVars, appVars>>

SteadyNext == SteadyArrive \/ SteadyTick

SteadySpec == SteadyInit /\ [][SteadyNext]_vars

\* the consumer loop issues a tick every second and the producers keep sending
SteadyFair ==
    SteadyInit /\ [][SteadyNext]_vars /\ WF_vars(SteadyArrive) /\ WF_vars(SteadyTick)

----------------------------------------------------------------------------
(* The u32 arithmetic of an applied tick, lines 107-109.  The numbers drawn  *)
(* are such that every sum, and every product that stays within u32, is     *)
(* below 2^31.                                                              *)

\* u32::MAX / k for k >= 2, from the two 16-bit halves of u32::MAX
U32MaxDiv(k) ==
    ((65535 \div k) * 65536) + ((((65535 % k) * 65536) + 65535) \div k)

\* a * k on u32: whether the product passes u32::MAX, and the product modulo
\* 2^32, taken on the 16-bit halves of a
MulU32(a, k) ==
    LET lo == (a % 65536) * k
        hi == ((a \div 65536) * k) + (lo \div 65536)
    IN [overflow |-> a > U32MaxDiv(k),
        value |-> ((hi % 65536) * 65536) + (lo % 65536)]

\* lines 107-109 with the accumulators b and n: a product that overflows
\* panics in a build with overflow checks and wraps in one without, the
\* division panics when the baud rate is 0
PeriodicArith(l, b, bd, p, n, checks) ==
    LET m1 == MulU32(b, 10)
        m2 == MulU32(m1.value + 5, 100)
        over == m1.overflow \/ m2.overflow
    IN IF over /\ checks THEN [kind |-> "overflow"]
       ELSE IF bd = 0 THEN [kind |-> "div_by_zero"]
       ELSE [kind |-> IF over THEN "wrapped" ELSE "ok",
             load |-> IF over THEN (l + (m2.value \div bd)) \div 2
                      ELSE LoadUpdate(l, b, bd),
             pps |-> PpsUpdate(p, n)]

\* applied ticks explored in one behaviour
MaxArithTicks == 2

\* the baud rates Stats::new is given: --baud is any u32, 125000 by default
ArithBauds == {0, 1, 1000, 125000}

\* what the calls of process_packet between two ticks add up to: n frames
\* with b payload bytes
ArithBursts ==
    { [n |-> 0, b |-> 0], [n |-> 1, b |-> 8], [n |-> 15625, b |-> 125000],
      [n |-> 536871, b |-> 4294967], [n |-> 53687092, b |-> 429496730] }

ArithInit ==
    /\ baud \in ArithBauds
    /\ overflow_checks \in BOOLEAN
    /\ arith = "none" /\ NoLoop /\ NoPipe
    /\ load = 0 /\ pps = 0
    /\ bytes = 0 /\ packets = 0
    /\ messages = << >> /\ ids = << >>
    /\ bytes_accum = 0 /\ packet_accum = 0
    /\ dbcs = << >> /\ sorted = FALSE /\ ordering = << >>
    /\ now = 0 /\ time = Some(0) /\ seen = {}
    /\ steadyFrames = 0 /\ steadyBytes = 0 /\ phase = "free" /\ ticksAtSteady = 0
    /\ version = "V1_0" /\ columns = "" /\ first_time = None
    /\ trc_packets = << >> /\ sync_time = FALSE
    /\ returned = Running
    /\ expected = << >> /\ rows = << >> /\ fault = None
    /\ declared = [dialect |-> "V1_0", layout |-> <<FALSE, FALSE>>]
    /\ NoDecode
    /\ NoCall

\* the frames between two ticks, lines 134-139
ArithBurst(burst) ==
    /\ arith \in {"none", "ok", "wrapped"}
    /\ packet_accum = 0 /\ burst.n > 0
    /\ packet_accum' = burst.n
    /\ bytes_accum' = burst.b
    /\ UNCHANGED <<baud, bytes, packets, load, pps, messages, ids, dbcs, sorted,
                   ordering, time, now, seen>>
    /\ UNCHANGED <<steadyVars, parseVars, decodeVars, callVars, appVars>>

\* an applied periodic, lines 104-111, one second after the last one
ArithTick ==
    /\ arith \in {"none", "ok", "wrapped"}
    /\ now < MaxArithTicks * 1000
    /\ now' = now + 1000
    /\ time' = Some(now')
    /\ \E r \in {PeriodicArith(load, bytes_accum, baud, pps, packet_accum,
                                overflow_checks)} :
          /\ arith' = r.kind
          /\ IF r.kind \in {"ok", "wrapped"}
             THEN /\ load' = r.load
                  /\ pps' = r.pps
                  /\ bytes_accum' = 0
                  /\ packet_accum' = 0
             ELSE UNCHANGED <<load, pps, bytes_accum, packet_accum>>
    /\ UNCHANGED <<baud, bytes, packets, messages, ids, dbcs, sorted, ordering,
                   seen>>
    /\ UNCHANGED <<steadyVars, parseVars, decodeVars, callVars, loopVars, pipeVars>>

ArithNext ==
    \/ \E burst \in ArithBursts : ArithBurst(burst)
    \/ ArithTick

ArithSpec == ArithInit /\ [][ArithNext]_vars

----------------------------------------------------------------------------
(* App::run: the consumer loop and the engines of its channels.  The loop   *)
(* runs for ever, so instants are kept as ages: the ms that have passed     *)
(* since the instant was read from the clock.  Every read of the clock      *)
(* comes some ms after the one before it.                                   *)

\* the channels of the application, in the order of self.channels
Channels == {0, 1}

\* line 207
stats_interval == 1000

\* the timeout of recv_timeout, line 227
RecvTimeout == 1000

\* ages are told apart up to MaxAge ms
MaxAge == 4000

\* the ms between one read of the clock and the next one in the code
Latencies == {0, 250}

\* the ms after which an event reaches the queue while recv_timeout blocks
ArrivalWaits == {0, 250, 500, 750}

\* an age after d more ms
Older(a, d) == Min(a + d, MaxAge)

\* recv that blocks until an event arrives
RecvWaits_Blocking(q) ==
    IF q THEN {}
    ELSE {[wait |-> w, event |-> e] :
             w \in ArrivalWaits, e \in {"packet", "key", "quit"}}

\* line 227: what recv_timeout returns and after how long.  The timeout
\* passes when no event arrives; an event arrives only while the producers
\* and the keyboard are active.
RecvWaits(q) ==
    {[wait |-> RecvTimeout, event |-> "timeout"]}
    \cup (IF q THEN {}
          ELSE {[wait |-> w, event |-> e] :
                   w \in ArrivalWaits, e \in {"packet", "key", "quit"}})

\* App::new has built a Stats::new for every channel, one after the other,
\* and App::run has read stats_time (line 210)
LoopInit ==
    /\ loop_pc = "top" /\ channel = 0
    /\ stats_age = 0 /\ now_age = 0
    /\ tick_age \in [Channels -> Latencies]
    /\ \A c, d \in Channels : c < d => tick_age[c] >= tick_age[d]
    /\ outcome = [c \in Channels |-> "none"]
    /\ waited = 0
    /\ quiet \in BOOLEAN
    /\ arith = "none" /\ NoPipe
    /\ baud = 0 /\ bytes = 0 /\ packets = 0 /\ load = 0 /\ pps = 0
    /\ messages = << >> /\ ids = << >>
    /\ bytes_accum = 0 /\ packet_accum = 0
    /\ dbcs = << >> /\ sorted = FALSE /\ ordering = << >>
    /\ now = 0 /\ time = None /\ seen = {}
    /\ steadyFrames = 0 /\ steadyBytes = 0 /\ phase = "free" /\ ticksAtSteady = 0
    /\ NoCall
    /\ NoParse
    /\ NoDecode

\* what no step of the loop changes
LoopFrame ==
    UNCHANGED <<statsVars, steadyVars, parseVars, decodeVars, callVars, arith,
                pipeVars>>

\* lines 213-214: the loop reads the clock and compares with stats_time
LoopTop(d) ==
    /\ loop_pc = "top"
    /\ now_age' = 0
    /\ stats_age' = Older(stats_age, d)
    /\ tick_age' = [c \in Channels |-> Older(tick_age[c], d)]
    /\ outcome' = [c \in Channels |-> "none"]
    /\ channel' = 0
    /\ loop_pc' = IF stats_age' >= stats_interval THEN "periodic" ELSE "draw"
    /\ UNCHANGED <<waited, quiet>>
    /\ LoopFrame

\* line 216 for the channel the loop has reached: periodic reads the clock
\* and applies or returns (stats.rs lines 98-104); after the last channel
\* line 218 stores now in stats_time
LoopPeriodic(d) ==
    /\ loop_pc = "periodic"
    /\ LET age == Older(tick_age[channel], d)
           applies == AsSecs(age) >= 1
           last == \A c \in Channels : c <= channel
       IN /\ tick_age' = [c \in Channels |->
                            IF c = channel /\ applies THEN 0
                            ELSE Older(tick_age[c], d)]
          /\ outcome' = [outcome EXCEPT
                            ![channel] = IF applies THEN "applied" ELSE "rejected"]
          /\ now_age' = Older(now_age, d)
          /\ stats_age' = IF last THEN now_age' ELSE Older(stats_age, d)
          /\ channel' = IF last THEN 0 ELSE channel + 1
          /\ loop_pc' = IF last THEN "draw" ELSE "periodic"
    /\ UNCHANGED <<waited, quiet>>
    /\ LoopFrame

\* lines 221-225: the table is drawn, or not
LoopDraw(d) ==
    /\ loop_pc = "draw"
    /\ now_age' = Older(now_age, d)
    /\ stats_age' = Older(stats_age, d)
    /\ tick_age' = [c \in Channels |-> Older(tick_age[c], d)]
    /\ loop_pc' = "recv"
    /\ UNCHANGED <<channel, outcome, waited, quiet>>
    /\ LoopFrame

\* lines 227-305: recv_timeout returns a packet, a key or the timeout; the
\* key Q leaves the loop
LoopRecv ==
    /\ loop_pc = "recv"
    /\ \E r \in RecvWaits(quiet) :
          /\ waited' = r.wait
          /\ now_age' = Older(now_age, r.wait)
          /\ stats_age' = Older(stats_age, r.wait)
          /\ tick_age' = [c \in Channels |-> Older(tick_age[c], r.wait)]
          /\ loop_pc' = IF r.event = "quit" THEN "exit" ELSE "top"
    /\ UNCHANGED <<channel, outcome, quiet>>
    /\ LoopFrame

\* the producers and the keyboard stop
Quiet ==
    /\ ~quiet /\ loop_pc # "exit"
    /\ quiet' = TRUE
    /\ UNCHANGED <<loop_pc, channel, stats_age, now_age, tick_age, outcome, waited>>
    /\ LoopFrame

\* the steps of the thread that runs App::run
LoopRun ==
    \/ \E d \in Latencies : LoopTop(d)
    \/ \E d \in Latencies : LoopPeriodic(d)
    \/ \E d \in Latencies : LoopDraw(d)
    \/ LoopRecv

LoopNext == LoopRun \/ Quiet

LoopSpec == LoopInit /\ [][LoopNext]_vars

\* the thread of App::run is scheduled again and again
LoopFair == LoopInit /\ [][LoopNext]_vars /\ WF_vars(LoopRun)

----------------------------------------------------------------------------
(* The threads: a trace-replay source (TrcSource::new), a live-adapter      *)
(* source (SocketCanSource::new), the input thread and the forwarding       *)
(* thread of App::new, and the receive of App::run.  A std::sync::mpsc       *)
(* channel is a queue: send appends, recv takes the oldest element, and      *)
(* send fails once the receiver has been dropped.                            *)

\* sends of one source thread explored in one behaviour
MaxSends == 3
\* key events explored in one behaviour
MaxKeys == 1
\* the packets of the replayed trace
TrcCount == 2

\* the source threads, by the index of their channel
Sources == {0, 1}
TrcSource == 0
SocketCanSource == 1

\* recv that takes the newest element
Recv_Newest(q) == [item |-> q[Len(q)], rest |-> SubSeq(q, 1, Len(q) - 1)]

\* Receiver::recv on a queue that is not empty
Recv(q) == [item |-> Head(q), rest |-> Tail(q)]

\* the index a new source is given is 1-based
SourceIndex_FromOne(len) == len + 1

\* main.rs line 118: the index a new source is given, channels.len()
SourceIndex(len) == len

\* the thread of the p-th source as its constructor starts it: the replay
\* thread about to send packet 0 of a file of n packets, the adapter thread
\* in rx.receive(); `source` is the index its packets carry
Thread(p, n) ==
    [pc |-> IF p = TrcSource THEN "send" ELSE "receive",
     index |-> 0, sent |-> 0,
     count |-> IF p = TrcSource THEN n ELSE 0,
     source |-> SourceIndex(p)]

\* the threads as App::new leaves them (main.rs 114-178)
Threads(n) == [p \in Sources |-> Thread(p, n)]

PipeInit ==
    /\ producers = Threads(TrcCount)
    /\ channels = Cardinality(Sources) /\ app_pc = "running"
    /\ ingest = << >> /\ ingest_open = TRUE
    /\ held = None
    /\ event_queue = << >>
    /\ keys = 0
    /\ handled = << >>
    /\ failures = [p \in Sources |-> 0]
    /\ arith = "none" /\ NoLoop
    /\ baud = 0 /\ bytes = 0 /\ packets = 0 /\ load = 0 /\ pps = 0
    /\ messages = << >> /\ ids = << >>
    /\ bytes_accum = 0 /\ packet_accum = 0
    /\ dbcs = << >> /\ sorted = FALSE /\ ordering = << >>
    /\ now = 0 /\ time = None /\ seen = {}
    /\ steadyFrames = 0 /\ steadyBytes = 0 /\ phase = "free" /\ ticksAtSteady = 0
    /\ NoCall
    /\ NoParse
    /\ NoDecode

\* what no thread changes
PipeFrame ==
    UNCHANGED <<statsVars, steadyVars, parseVars, decodeVars, callVars, arith,
                loopVars, channels>>

\* tx.send(packet) by source thread p: the packet is queued, or the send
\* fails and the thread prints "Error sending frame event".  `known` is
\* history: the channels that had been pushed when the packet was sent
Send(p, frame) ==
    LET packet == [source |-> producers[p].source, seq |-> producers[p].sent + 1,
                   frame |-> frame, known |-> channels]
    IN IF ingest_open
       THEN /\ ingest' = Append(ingest, packet)
            /\ UNCHANGED failures
       ELSE /\ failures' = [failures EXCEPT ![p] = @ + 1]
            /\ UNCHANGED ingest

\* trc.rs lines 37-45: the replay thread takes the packet at index, where
\* file.packets.get(index).unwrap() panics when there is none, stamps it
\* and sends it
TrcSend ==
    /\ producers[TrcSource].pc = "send"
    /\ producers[TrcSource].sent < MaxSends
    /\ IF producers[TrcSource].index < producers[TrcSource].count
       THEN /\ Send(TrcSource, producers[TrcSource].index)
            /\ producers' = [producers EXCEPT ![TrcSource].pc = "sleep",
                                              ![TrcSource].sent = @ + 1]
       ELSE /\ producers' = [producers EXCEPT ![TrcSource].pc = "panicked"]
            /\ UNCHANGED <<ingest, failures>>
    /\ UNCHANGED <<ingest_open, held, event_queue, keys, handled>>
    /\ UNCHANGED app_pc
    /\ PipeFrame

\* trc.rs lines 47-57: the replay thread sleeps and moves to the next
\* packet, back to the first one after the last
TrcSleep ==
    /\ producers[TrcSource].pc = "sleep"
    /\ producers' = [producers EXCEPT
                        ![TrcSource].pc = "send",
                        ![TrcSource].index =
                            IF @ + 1 >= producers[TrcSource].count THEN 0 ELSE @ + 1]
    /\ UNCHANGED <<ingest, ingest_open, held, event_queue, keys, handled, failures>>
    /\ UNCHANGED app_pc
    /\ PipeFrame

\* socketcan.rs line 32: rx.receive() returns a frame, or an error that ends
\* the `while let` and the thread
CanReceive(ok) ==
    /\ producers[SocketCanSource].pc = "receive"
    /\ producers[SocketCanSource].sent < MaxSends
    /\ producers' = [producers EXCEPT
                        ![SocketCanSource].pc = IF ok THEN "send" ELSE "ended"]
    /\ UNCHANGED <<ingest, ingest_open, held, event_queue, keys, handled, failures>>
    /\ UNCHANGED app_pc
    /\ PipeFrame

\* socketcan.rs lines 33-42: the adapter thread sends the frame it received
CanSend ==
    /\ producers[SocketCanSource].pc = "send"
    /\ Send(SocketCanSource, producers[SocketCanSource].sent)
    /\ producers' = [producers EXCEPT ![SocketCanSource].pc = "receive",
                                      ![SocketCanSource].sent = @ + 1]
    /\ UNCHANGED <<ingest_open, held, event_queue, keys, handled>>
    /\ UNCHANGED app_pc
    /\ PipeFrame

\* main.rs lines 161-178: the input thread and the forwarding thread have
\* been spawned
Spawned == app_pc \in {"running", "panicked"}

\* main.rs line 174: the forwarding thread receives a packet
ForwardRecv ==
    /\ Spawned
    /\ held = None /\ ingest # << >>
    /\ held' = Some(Recv(ingest).item)
    /\ ingest' = Recv(ingest).rest
    /\ UNCHANGED <<producers, ingest_open, event_queue, keys, handled, failures>>
    /\ UNCHANGED app_pc
    /\ PipeFrame

\* main.rs line 175: the forwarding thread sends it on as an event
ForwardSend ==
    /\ held # None
    /\ event_queue' = Append(event_queue, [event |-> "Packet", packet |-> held[1]])
    /\ held' = None
    /\ UNCHANGED <<producers, ingest, ingest_open, keys, handled, failures>>
    /\ UNCHANGED app_pc
    /\ PipeFrame

\* main.rs lines 164-165: the input thread sends a key event
KeySend ==
    /\ Spawned
    /\ keys < MaxKeys
    /\ keys' = keys + 1
    /\ event_queue' = Append(event_queue, [event |-> "Key"])
    /\ UNCHANGED <<producers, ingest, ingest_open, held, handled, failures>>
    /\ UNCHANGED app_pc
    /\ PipeFrame

\* main.rs lines 227-303: App::run receives an event; a packet goes to
\* process_packet of its channel, which
\* self.channels.get_mut(packet.source).expect("channel for id") looks up
ConsumerRecv ==
    /\ app_pc = "running"
    /\ event_queue # << >>
    /\ LET r == Recv(event_queue)
       IN /\ event_queue' = r.rest
          /\ IF r.item.event = "Packet" /\ ~(r.item.packet.source < channels)
             THEN /\ app_pc' = "panicked"
                  /\ UNCHANGED handled
             ELSE /\ handled' = IF r.item.event = "Packet"
                                 THEN Append(handled, r.item.packet)
                                 ELSE handled
                  /\ UNCHANGED app_pc
    /\ UNCHANGED <<producers, ingest, ingest_open, held, keys, failures>>
    /\ PipeFrame

\* the receiver of the packet channel is dropped by the thread that owns
\* it; the packets still in the channel are dropped with it
DropReceiver ==
    /\ ingest_open /\ held = None
    /\ ingest_open' = FALSE
    /\ ingest' = << >>
    /\ UNCHANGED <<producers, held, event_queue, keys, handled, failures>>
    /\ UNCHANGED app_pc
    /\ PipeFrame

PipeNext ==
    \/ TrcSend \/ TrcSleep
    \/ \E ok \in BOOLEAN : CanReceive(ok)
    \/ CanSend
    \/ ForwardRecv \/ ForwardSend
    \/ KeySend
    \/ ConsumerRecv
    \/ DropReceiver

PipeSpec == PipeInit /\ [][PipeNext]_vars

\* the same threads when the trace file gave any number of packets, none
\* included: TrcParser returns Ok with an empty vector for a file of
\* comments, directives and skipped rows
ReplayInit ==
    /\ \E n \in 0..TrcCount : producers = Threads(n)
    /\ channels = Cardinality(Sources) /\ app_pc = "running"
    /\ ingest = << >> /\ ingest_open = TRUE
    /\ held = None
    /\ event_queue = << >>
    /\ keys = 0
    /\ handled = << >>
    /\ failures = [p \in Sources |-> 0]
    /\ arith = "none" /\ NoLoop
    /\ baud = 0 /\ bytes = 0 /\ packets = 0 /\ load = 0 /\ pps = 0
    /\ messages = << >> /\ ids = << >>
    /\ bytes_accum = 0 /\ packet_accum = 0
    /\ dbcs = << >> /\ sorted = FALSE /\ ordering = << >>
    /\ now = 0 /\ time = None /\ seen = {}
    /\ steadyFrames = 0 /\ steadyBytes = 0 /\ phase = "free" /\ ticksAtSteady = 0
    /\ NoCall
    /\ NoParse
    /\ NoDecode

ReplaySpec == ReplayInit /\ [][PipeNext]_vars

----------------------------------------------------------------------------
(* App::new from its first statement: the loop over args.sources makes one *)
(* source after the other, each constructor starts the thread of its       *)
(* source, and the channel of the source is pushed afterwards; the input   *)
(* and forwarding threads are spawned after the loop, and App::run runs    *)
(* once App::new has returned Ok.  args.sources names a trace file and an  *)
(* adapter, in this order.                                                 *)

\* a thread that has not been spawned
Unstarted == [pc |-> "unstarted", index |-> 0, sent |-> 0, count |-> 0, source |-> 0]

SetupInit ==
    /\ producers = [p \in Sources |-> Unstarted]
    /\ channels = 0 /\ app_pc = "create"
    /\ ingest = << >> /\ ingest_open = TRUE
    /\ held = None
    /\ event_queue = << >>
    /\ keys = 0
    /\ handled = << >>
    /\ failures = [p \in Sources |-> 0]
    /\ arith = "none" /\ NoLoop
    /\ baud = 0 /\ bytes = 0 /\ packets = 0 /\ load = 0 /\ pps = 0
    /\ messages = << >> /\ ids = << >>
    /\ bytes_accum = 0 /\ packet_accum = 0
    /\ dbcs = << >> /\ sorted = FALSE /\ ordering = << >>
    /\ now = 0 /\ time = None /\ seen = {}
    /\ steadyFrames = 0 /\ steadyBytes = 0 /\ phase = "free" /\ ticksAtSteady = 0
    /\ NoCall
    /\ NoParse
    /\ NoDecode

\* what the main thread leaves alone during App::new
SetupFrame ==
    /\ UNCHANGED <<held, event_queue, keys, handled, failures>>
    /\ UNCHANGED <<statsVars, steadyVars, parseVars, decodeVars, callVars, arith,
                   loopVars>>

\* `?` in App::new: the function returns Err, and rx_packets is dropped
\* with the packets it holds
SetupFails ==
    /\ app_pc' = "failed"
    /\ ingest_open' = FALSE
    /\ ingest' = << >>
    /\ UNCHANGED <<producers, channels>>

\* main.rs lines 118-143: the constructor of the next source is called with
\* index = channels.len(); it starts the thread of the source, or fails
CreateSource(ok) ==
    /\ app_pc = "create" /\ channels < Cardinality(Sources)
    /\ IF ok
       THEN /\ producers' = [producers EXCEPT ![channels] =
                                [Thread(channels, TrcCount) EXCEPT
                                    !.source = SourceIndex(channels)]]
            /\ app_pc' = "push"
            /\ UNCHANGED <<ingest, ingest_open, channels>>
       ELSE SetupFails
    /\ SetupFrame

\* main.rs lines 145-153: the statistics of the channel are made, its
\* definition tables are loaded, which may fail, and the channel is pushed
PushChannel(ok) ==
    /\ app_pc = "push"
    /\ IF ok
       THEN /\ channels' = channels + 1
            /\ app_pc' = "create"
            /\ UNCHANGED <<producers, ingest, ingest_open>>
       ELSE SetupFails
    /\ SetupFrame

\* main.rs lines 158-200: the loop is over, the input thread and the
\* forwarding thread are spawned and App::new returns Ok
SpawnThreads ==
    /\ app_pc = "create" /\ channels = Cardinality(Sources)
    /\ app_pc' = "running"
    /\ UNCHANGED <<producers, ingest, ingest_open, channels>>
    /\ SetupFrame

SetupNext ==
    \/ \E ok \in BOOLEAN : CreateSource(ok)
    \/ \E ok \in BOOLEAN : PushChannel(ok)
    \/ SpawnThreads
    \/ TrcSend \/ TrcSleep
    \/ \E ok \in BOOLEAN : CanReceive(ok)
    \/ CanSend
    \/ ForwardRecv \/ ForwardSend
    \/ ConsumerRecv

SetupSpec == SetupInit /\ [][SetupNext]_vars

----------------------------------------------------------------------------

(* Text: a line is a string; str::starts_with, str::split, split_whitespace *)

Char(s, i) == SubSeq(s, i, i)

StartsWith(s, p) == Len(s) >= Len(p) /\ SubSeq(s, 1, Len(p)) = p

\* str::contains for a one-character pattern
Contains(s, c) == \E i \in 1..Len(s) : Char(s, i) = c

\* the pieces of s between the separators, empty pieces kept
RECURSIVE SplitFrom(_, _, _, _)
SplitFrom(s, seps, i, start) ==
    IF i > Len(s) THEN <<SubSeq(s, start, Len(s))>>
    ELSE IF Char(s, i) \in seps
         THEN <<SubSeq(s, start, i - 1)>> \o SplitFrom(s, seps, i + 1, i + 1)
         ELSE SplitFrom(s, seps, i + 1, start)

\* line.split("=")
Split(s, sep) == SplitFrom(s, {sep}, 1, 1)

\* line.split_whitespace()
SplitWhitespace(s) == SelectSeq(SplitFrom(s, {" ", "\t"}, 1, 1), LAMBDA t : t # "")

----------------------------------------------------------------------------
(* Numbers: from_str_radix(_, 16) and str::parse::<f32>                    *)
(* from_str_radix yields a number as the tuple of its significant          *)
(* hexadecimal digits; ValueOf makes it an integer where it is below 2^28. *)

HexDigits == "0123456789ABCDEFabcdef"

IsHexDigit(c) == \E i \in 1..Len(HexDigits) : Char(HexDigits, i) = c

DigitValue(c) ==
    LET k == CHOOSE i \in 1..Len(HexDigits) : Char(HexDigits, i) = c
    IN IF k <= 16 THEN k - 1 ELSE k - 7

RECURSIVE StripZeros(_)
StripZeros(ds) ==
    IF ds # << >> /\ Head(ds) = 0 THEN StripZeros(Tail(ds)) ELSE ds

RECURSIVE ValueOf(_)
ValueOf(ds) ==
    IF ds = << >> THEN 0 ELSE ValueOf(SubSeq(ds, 1, Len(ds) - 1)) * 16 + ds[Len(ds)]

\* <unsigned>::from_str_radix(s, 16) for a type of `width` hexadecimal
\* digits: None for the empty string, a lone or misplaced sign, a character
\* that is no hexadecimal digit, or a value the type cannot hold
FromStrRadix16(s, width) ==
    LET body == IF Len(s) > 0 /\ Char(s, 1) = "+" THEN SubSeq(s, 2, Len(s)) ELSE s
    IN IF body = "" \/ \E i \in 1..Len(body) : ~IsHexDigit(Char(body, i))
       THEN None
       ELSE LET digits == StripZeros([i \in 1..Len(body) |-> DigitValue(Char(body, i))])
            IN IF Len(digits) > width THEN None ELSE Some(digits)

\* a u32 as a value of the model: an integer below 2^28, else its digits
U32(digits) == IF Len(digits) <= 7 THEN ValueOf(digits) ELSE digits

\* the all-ones identifier is 0xffff
AllOnes_Short == <<15, 15, 15, 15>>

\* 0xffffffff
AllOnes == <<15, 15, 15, 15, 15, 15, 15, 15>>

DecDigits == "0123456789"

IsDecDigit(c) == \E i \in 1..Len(DecDigits) : Char(DecDigits, i) = c

RECURSIVE DecValue(_)
DecValue(s) ==
    IF s = "" THEN 0
    ELSE DecValue(SubSeq(s, 1, Len(s) - 1)) * 10 + DigitValue(Char(s, Len(s)))

\* s.parse::<f32>()? as u64, for the plain decimal spellings
\* [+-] digits [. digits]: the cast drops the fraction and takes a negative
\* value to 0.  Exponents and the spellings of infinity and NaN are not
\* among the tokens of the modelled traces; the integer part stays below
\* 2^24, where f32 holds it exactly.
ParseF32AsU64(s) ==
    LET signed == Len(s) > 0 /\ Char(s, 1) \in {"+", "-"}
        body == IF signed THEN SubSeq(s, 2, Len(s)) ELSE s
        parts == Split(body, ".")
        digitsOnly(t) == \A i \in 1..Len(t) : IsDecDigit(Char(t, i))
    IN IF \/ Len(parts) > 2
          \/ \E k \in 1..Len(parts) : ~digitsOnly(parts[k])
          \/ \A k \in 1..Len(parts) : parts[k] = ""
       THEN None
       ELSE IF signed /\ Char(s, 1) = "-" THEN Some(0)
       ELSE Some(DecValue(parts[1]))

\* fn float_ns, lines 170-173
float_ns(s) ==
    LET ms == ParseF32AsU64(s)
    IN IF ms = None THEN None ELSE Some(ms[1] * 1000000)

\* the time is read in base 10
int_ns_Decimal(s) ==
    IF s = "" \/ \E i \in 1..Len(s) : ~IsDecDigit(Char(s, i)) THEN None
    ELSE Some(DecValue(s) * 1000000)

\* fn int_ns, lines 175-177
int_ns(s) ==
    LET ms == FromStrRadix16(s, 16)
    IN IF ms = None THEN None ELSE Some(ValueOf(ms[1]) * 1000000)

----------------------------------------------------------------------------
(* TrcParser::new_from_lines: one data row *)

\* cols[k], 0-based as in the source; the access panics unless InRange
Col(cols, k) == cols[k + 1]
InRange(cols, k) == k < Len(cols)

\* what one line does to the parse
Panicked == [kind |-> "panic"]
Failed(e) == [kind |-> "err", error |-> e]
Skipped(ft) == [kind |-> "skip", first_time |-> ft]
Pushed(ft, p) == [kind |-> "packet", first_time |-> ft, packet |-> p]

\* time_ns - t on u64, line 216: below zero the subtraction panics in a
\* build with overflow checks and wraps around 2^64 in one without.  A u64
\* of 2^63 or more is written as the negative number v - 2^64.
Sub64(a, b, checks) ==
    IF a < b /\ checks THEN Panicked ELSE [kind |-> "ok", value |-> a - b]

\* the u64 is the result of a subtraction that wrapped
Wrapped(v) == v < 0

\* the identifier of a 2.x row is read at column 3 whatever COLUMNS holds
RowColumns_IdAlways3(cols, ver, colspec) ==
    LET timed(id, dlc, t) ==
            IF t = None THEN Failed("time")
            ELSE [kind |-> "ok", id_col |-> id, dlc_col |-> dlc, time_ns |-> t[1]]
    IN IF ver \in {"V1_0", "V1_1", "V1_3"}
       THEN IF ~InRange(cols, 1) THEN Panicked
            ELSE CASE ver = "V1_0" -> timed(2, 3, int_ns(Col(cols, 1)))
                   [] ver = "V1_1" -> timed(3, 4, float_ns(Col(cols, 1)))
                   [] ver = "V1_3" -> timed(4, 6, float_ns(Col(cols, 1)))
       ELSE LET has_bus == Contains(colspec, "B")
                has_rsvd == Contains(colspec, "R")
                id == 3
                dlc == CASE ~has_bus /\ ~has_rsvd -> 5
                         [] ~has_bus /\ has_rsvd -> 6
                         [] has_bus /\ ~has_rsvd -> 6
                         [] has_bus /\ has_rsvd -> 7
            IN IF Len(cols) < 6 THEN Skipped(None)
               ELSE IF ~InRange(cols, dlc + 1) THEN Panicked
               ELSE IF \/ Col(cols, dlc + 1) = "RTR"
                       \/ (Col(cols, 2) # "DT" /\ Col(cols, 2) # "FD")
                    THEN Skipped(None)
               ELSE timed(id, dlc, float_ns(Col(cols, 1)))

\* lines 179-203: the identifier and data-length columns and the time of the
\* row, or the early `continue` of the 2.x dialects
RowColumns(cols, ver, colspec) ==
    LET timed(id, dlc, t) ==
            IF t = None THEN Failed("time")
            ELSE [kind |-> "ok", id_col |-> id, dlc_col |-> dlc, time_ns |-> t[1]]
    IN IF ver \in {"V1_0", "V1_1", "V1_3"}
       THEN IF ~InRange(cols, 1) THEN Panicked
            ELSE CASE ver = "V1_0" -> timed(2, 3, int_ns(Col(cols, 1)))
                   [] ver = "V1_1" -> timed(3, 4, float_ns(Col(cols, 1)))
                   [] ver = "V1_3" -> timed(4, 6, float_ns(Col(cols, 1)))
       ELSE LET has_bus == Contains(colspec, "B")
                has_rsvd == Contains(colspec, "R")
                id == IF has_bus THEN 4 ELSE 3
                dlc == CASE ~has_bus /\ ~has_rsvd -> 5
                         [] ~has_bus /\ has_rsvd -> 6
                         [] has_bus /\ ~has_rsvd -> 6
                         [] has_bus /\ has_rsvd -> 7
            IN IF Len(cols) < 6 THEN Skipped(None)
               ELSE IF ~InRange(cols, dlc + 1) THEN Panicked
               ELSE IF \/ Col(cols, dlc + 1) = "RTR"
                       \/ (Col(cols, 2) # "DT" /\ Col(cols, 2) # "FD")
                    THEN Skipped(None)
               ELSE timed(id, dlc, float_ns(Col(cols, 1)))

\* the reference is subtracted whether or not sync_time is set
SyncTime_Always(time_ns, ft, sync, checks) ==
    IF ft = None
    THEN [kind |-> "ok", first_time |-> Some(time_ns), value |-> 0]
    ELSE LET d == Sub64(time_ns, ft[1], checks)
         IN IF d.kind = "panic" THEN Panicked
            ELSE [kind |-> "ok", first_time |-> ft, value |-> d.value]

\* lines 205-221: the time the frame is given, and the new first_time
SyncTime(time_ns, ft, sync, checks) ==
    IF ft = None
    THEN [kind |-> "ok", first_time |-> Some(time_ns),
          value |-> IF sync THEN 0 ELSE time_ns]
    ELSE IF sync
         THEN LET d == Sub64(time_ns, ft[1], checks)
              IN IF d.kind = "panic" THEN Panicked
                 ELSE [kind |-> "ok", first_time |-> ft, value |-> d.value]
         ELSE [kind |-> "ok", first_time |-> ft, value |-> time_ns]

\* an identifier that does not parse falls back on 0
RowId_OrZero(tok) ==
    LET r == FromStrRadix16(tok, 8) IN IF r = None THEN Some(<< >>) ELSE r

\* line 223: u32::from_str_radix(&cols[id_col], 16)
RowId(tok) == FromStrRadix16(tok, 8)

\* line 228: usize::from_str_radix(&cols[dlc_col], 16)
RowDlc(tok) == FromStrRadix16(tok, 16)

\* a data token that does not parse passes for the byte 0xFF
ByteOf_AllOnes(tok) ==
    LET b == FromStrRadix16(tok, 2) IN IF b = None THEN 255 ELSE ValueOf(b[1])

\* lines 239-240: u8::from_str_radix(&cols[data_col + i], 16).unwrap_or(0)
ByteOf(tok) ==
    LET b == FromStrRadix16(tok, 2) IN IF b = None THEN 0 ELSE ValueOf(b[1])

\* lines 236-242: the data bytes of the row
RowBytes(cols, data_col, dlc) ==
    [i \in 1..dlc |-> ByteOf(Col(cols, data_col + i - 1))]

\* the frame is extended when its identifier is above the 11-bit range
IsExtended_ByValue(tok) ==
    LET id == FromStrRadix16(tok, 8)
    IN id # None /\ (Len(id[1]) > 3 \/ (Len(id[1]) = 3 /\ id[1][1] > 7))

\* line 247: cols[id_col].len() > 4
IsExtended(tok) == Len(tok) > 4

\* lines 223-250, after the time of the row is settled.  A data length of
\* 2^28 or more is beyond every row: cols.len() < data_col + dlc.
RowPacket(cols, lay, tm, index) ==
    IF ~InRange(cols, lay.id_col) THEN Panicked
    ELSE LET id == RowId(Col(cols, lay.id_col))
         IN IF id = None THEN Failed("id")
            ELSE IF id[1] = AllOnes THEN Skipped(tm.first_time)
            ELSE IF ~InRange(cols, lay.dlc_col) THEN Panicked
            ELSE LET dlc == RowDlc(Col(cols, lay.dlc_col))
                     data_col == lay.dlc_col + 1
                 IN IF dlc = None THEN Failed("dlc")
                    ELSE IF Len(dlc[1]) > 7 THEN Skipped(tm.first_time)
                    ELSE IF \/ Len(cols) < data_col + ValueOf(dlc[1])
                            \/ (ValueOf(dlc[1]) > 0 /\ Col(cols, data_col) = "RTR")
                         THEN Skipped(tm.first_time)
                    ELSE Pushed(tm.first_time,
                                [source |-> index,
                                 time |-> Some(tm.value),
                                 extended |-> IsExtended(Col(cols, lay.id_col)),
                                 id |-> U32(id[1]),
                                 bytes |-> RowBytes(cols, data_col, ValueOf(dlc[1]))])

\* lines 163-251: a line that is neither a directive nor a comment
DataRow(line, ver, colspec, ft, sync, checks, index) ==
    LET cols == SplitWhitespace(line)
    IN IF cols = << >> THEN Skipped(ft)
       ELSE LET lay == RowColumns(cols, ver, colspec)
            IN IF lay.kind = "panic" \/ lay.kind = "err" THEN lay
               ELSE IF lay.kind = "skip" THEN Skipped(ft)
               ELSE LET tm == SyncTime(lay.time_ns, ft, sync, checks)
                    IN IF tm.kind = "panic" THEN Panicked
                       ELSE RowPacket(cols, lay, tm, index)

----------------------------------------------------------------------------
(* TrcParser::new_from_lines: directives *)

\* the match on the value of ;$FILEVERSION, lines 145-151
VersionOf(value) ==
    CASE value = "1.1" -> Some("V1_1")
      [] value = "1.3" -> Some("V1_3")
      [] value = "2.0" -> Some("V2_0")
      [] value = "2.1" -> Some("V2_1")
      [] OTHER -> None

\* a directive without "=" is passed over
Directive_Lenient(line, ver, colspec) ==
    LET s == Split(line, "=")
    IN IF Len(s) < 2 THEN [kind |-> "ok", version |-> ver, columns |-> colspec]
       ELSE IF s[1] = ";$FILEVERSION"
            THEN IF VersionOf(s[2]) = None
                 THEN [kind |-> "ok", version |-> ver, columns |-> colspec]
                 ELSE [kind |-> "ok", version |-> VersionOf(s[2])[1], columns |-> colspec]
       ELSE IF s[1] = ";$COLUMNS"
            THEN [kind |-> "ok", version |-> ver, columns |-> s[2]]
       ELSE [kind |-> "ok", version |-> ver, columns |-> colspec]

\* lines 137-160: a line that starts with ";$"
Directive(line, ver, colspec) ==
    LET s == Split(line, "=")
    IN IF Len(s) < 2 THEN Failed("Invalid directive")
       ELSE IF s[1] = ";$FILEVERSION"
            THEN IF VersionOf(s[2]) = None THEN Failed("Unknown version")
                 ELSE [kind |-> "ok", version |-> VersionOf(s[2])[1], columns |-> colspec]
       ELSE IF s[1] = ";$COLUMNS"
            THEN [kind |-> "ok", version |-> ver, columns |-> s[2]]
       ELSE [kind |-> "ok", version |-> ver, columns |-> colspec]

----------------------------------------------------------------------------
(* The lines of the modelled traces.  Each line carries, beside its text,  *)
(* what it is: `kind`, the dialects and column layout it is written for,   *)
(* and for a valid row the frame it stands for.                            *)

\* frames one parse emits at most
MaxFrames == 2

Dialects == {"V1_0", "V1_1", "V1_3", "V2_0", "V2_1"}

\* a row format: the dialects that use it and, for 2.x, whether the row has
\* a bus and a reserved column
Formats ==
    { [dialects |-> {"V1_0"}, layout |-> <<FALSE, FALSE>>],
      [dialects |-> {"V1_1"}, layout |-> <<FALSE, FALSE>>],
      [dialects |-> {"V1_3"}, layout |-> <<FALSE, FALSE>>],
      [dialects |-> {"V2_0", "V2_1"}, layout |-> <<FALSE, FALSE>>],
      [dialects |-> {"V2_0", "V2_1"}, layout |-> <<TRUE, TRUE>>] }

Is2x(f) == "V2_0" \in f.dialects

\* the time column: milliseconds, base 16 in 1.0 and decimal elsewhere
TimeToken(f, which) ==
    IF f.dialects = {"V1_0"}
    THEN CASE which = "t10" -> "0A" [] which = "t11" -> "0B"
           [] which = "t12" -> "0C" [] which = "t17" -> "11"
           [] which = "bad" -> "0G"
    ELSE CASE which = "t10" -> "10.3" [] which = "t11" -> "11.0"
           [] which = "t12" -> "12.7" [] which = "t17" -> "17.4"
           [] which = "bad" -> "1x.5"

\* the text of a row: number, time, (type, bus,) identifier, (direction,
\* reserved,) data length, data
RowText(f, tm, type, id, dlc, data) ==
    LET head == IF Is2x(f) THEN "      1     " ELSE "     1)     "
        before == CASE f.dialects = {"V1_0"} -> "  "
                    [] f.dialects = {"V1_1"} -> "  " \o type \o "     "
                    [] f.dialects = {"V1_3"} -> " 1  " \o type \o "    "
                    [] Is2x(f) /\ ~f.layout[1] -> " " \o type \o " "
                    [] Is2x(f) /\ f.layout[1] -> " " \o type \o " 1  "
        after == CASE f.dialects = {"V1_3"} -> " -  "
                   [] Is2x(f) /\ ~f.layout[2] -> " Tx "
                   [] Is2x(f) /\ f.layout[2] -> " Tx -  "
                   [] OTHER -> "  "
    IN head \o TimeToken(f, tm) \o before \o id \o after \o dlc \o "  " \o data

\* the type column of a data row
DataType(f) == IF Is2x(f) THEN "DT" ELSE "Rx"

\* the status row of each format, as the PEAK tools write it
StatusText(f) ==
    CASE f.dialects = {"V1_0"} ->
            "     2)     0A  FFFFFFFF  4  00 00 00 08 -- -- -- -- BUSHEAVY"
      [] f.dialects = {"V1_1"} ->
            "     2)     10.3  Warng  FFFFFFFF  4  00 00 00 08  BUSHEAVY "
      [] f.dialects = {"V1_3"} ->
            "     2)     10.3 1  Warng FFFFFFFF -  4    00 00 00 08  BUSHEAVY"
      [] Is2x(f) /\ ~f.layout[1] ->
            "      2     10.300 ST          Rx    00 00 00 08"
      [] Is2x(f) /\ f.layout[1] ->
            "      2     10.300 ST 1         - Rx -  4    00 00 00 08"

NoFrame == [id |-> 0, extended |-> FALSE, bytes |-> << >>]

Line(f, kind, text, frame) ==
    [text |-> text, kind |-> kind, dialects |-> f.dialects, layout |-> f.layout,
     frame |-> frame]

\* the rows of one format
RowsOf(f) ==
    { Line(f, "valid", RowText(f, "t17", DataType(f), "00000101", "8",
                               "00 00 00 00 00 00 00 55"),
           [id |-> 257, extended |-> TRUE, bytes |-> <<0, 0, 0, 0, 0, 0, 0, 85>>]),
      Line(f, "valid", RowText(f, "t12", DataType(f), "0101", "2", "1F ff"),
           [id |-> 257, extended |-> FALSE, bytes |-> <<31, 255>>]),
      Line(f, "status", StatusText(f), NoFrame),
      Line(f, "rtr", RowText(f, "t11", DataType(f), "0100", "1", "RTR"), NoFrame),
      Line(f, "shortdata", RowText(f, "t11", DataType(f), "0100", "8", "00 00"), NoFrame),
      Line(f, "nodata", RowText(f, "t11", DataType(f), "0100", "8", ""), NoFrame),
      Line(f, "badtime", RowText(f, "bad", DataType(f), "0100", "1", "00"), NoFrame),
      Line(f, "badid", RowText(f, "t11", DataType(f), "01ZZ", "1", "00"), NoFrame),
      Line(f, "baddlc", RowText(f, "t11", DataType(f), "0100", "x", "00"), NoFrame) }

AnyFormat == [dialects |-> Dialects, layout |-> <<FALSE, FALSE>>]

\* directives, comments and blank lines
OtherLines ==
    { Line(AnyFormat, "blank", "", NoFrame),
      Line(AnyFormat, "comment", ";   Start time: 18.12.2021 14:28:07.062.0", NoFrame),
      Line(AnyFormat, "starttime", ";$STARTTIME=44548.6028595139", NoFrame),
      Line(AnyFormat, "baddirective", ";$STARTTIME", NoFrame),
      Line(AnyFormat, "baddirective", ";$FILEVERSION=3.0", NoFrame),
      Line([dialects |-> {"V1_0"}, layout |-> <<FALSE, FALSE>>],
           "version10", ";$FILEVERSION=1.0", NoFrame),
      Line([dialects |-> {"V1_1"}, layout |-> <<FALSE, FALSE>>],
           "version", ";$FILEVERSION=1.1", NoFrame),
      Line([dialects |-> {"V1_3"}, layout |-> <<FALSE, FALSE>>],
           "version", ";$FILEVERSION=1.3", NoFrame),
      Line([dialects |-> {"V2_0"}, layout |-> <<FALSE, FALSE>>],
           "version", ";$FILEVERSION=2.0", NoFrame),
      Line([dialects |-> {"V2_1"}, layout |-> <<FALSE, FALSE>>],
           "version", ";$FILEVERSION=2.1", NoFrame),
      Line([dialects |-> {"V2_0", "V2_1"}, layout |-> <<FALSE, FALSE>>],
           "columns", ";$COLUMNS=N,O,T,I,d,l,D", NoFrame),
      Line([dialects |-> {"V2_0", "V2_1"}, layout |-> <<TRUE, TRUE>>],
           "columns", ";$COLUMNS=N,O,T,B,I,d,R,L,D", NoFrame) }

Lines == OtherLines \cup UNION {RowsOf(f) : f \in Formats}

RowKinds == {"valid", "status", "rtr", "shortdata", "nodata",
             "badtime", "badid", "baddlc",
             "zerolen", "badbyte", "allones", "few", "counters", "long"}

\* the rows that stand for a frame
FrameKinds == {"valid", "zerolen", "badbyte"}

\* the kinds of line a well-formed trace is made of: comments, directives
\* the format defines, valid rows and the rows the format lets a reader skip
WellFormedKinds == {"blank", "comment", "starttime", "version", "columns",
                    "valid", "status", "rtr", "shortdata", "nodata",
                    "zerolen", "badbyte", "allones", "few", "counters", "long"}

\* a row is written for the dialect and layout the trace declared; a COLUMNS
\* directive belongs to a 2.x trace
Offered(l) ==
    CASE l.kind \in RowKinds ->
            declared.dialect \in l.dialects /\ declared.layout = l.layout
      [] l.kind = "columns" -> declared.dialect \in l.dialects
      [] OTHER -> TRUE

----------------------------------------------------------------------------
(* TrcParser::new_from_lines(lines, index, sync_time) *)

ParseInit ==
    /\ version = "V1_0"
    /\ columns = ""
    /\ first_time = None
    /\ trc_packets = << >>
    /\ sync_time \in BOOLEAN
    /\ overflow_checks \in BOOLEAN
    /\ returned = Running
    /\ expected = << >> /\ rows = << >> /\ fault = None
    /\ declared = [dialect |-> "V1_0", layout |-> <<FALSE, FALSE>>]
    \* Stats::default(): no engine runs
    /\ baud = 0 /\ bytes = 0 /\ packets = 0 /\ load = 0 /\ pps = 0
    /\ messages = << >> /\ ids = << >>
    /\ bytes_accum = 0 /\ packet_accum = 0
    /\ dbcs = << >> /\ sorted = FALSE /\ ordering = << >>
    /\ now = 0 /\ time = None /\ seen = {}
    /\ steadyFrames = 0 /\ steadyBytes = 0 /\ phase = "free" /\ ticksAtSteady = 0
    /\ NoCall /\ NoApp
    /\ NoDecode

\* lines 136-251: what the body of the loop does with one line
LineStep(text) ==
    IF StartsWith(text, ";$")
    THEN Directive(text, version, columns)
    ELSE IF ~StartsWith(text, ";")
         THEN DataRow(text, version, columns, first_time, sync_time, overflow_checks, 0)
         ELSE Skipped(first_time)

\* the time column of a row as the parser reads it, in nanoseconds
FileNs(text) ==
    LET cols == SplitWhitespace(text)
    IN IF version = "V1_0" THEN int_ns(Col(cols, 1))[1] ELSE float_ns(Col(cols, 1))[1]

\* the text of the time column of a row, cols[1]
TimeField(text) == Col(SplitWhitespace(text), 1)

\* one iteration of `for line in lines.into_iter()`
ParseLine(l) ==
    /\ returned = Running
    /\ Offered(l)
    /\ l.kind \in FrameKinds => Len(expected) < MaxFrames
    /\ \E r \in {LineStep(l.text)} :
          /\ r.kind = "packet" => Len(trc_packets) < MaxFrames
          /\ version' = IF r.kind = "ok" THEN r.version ELSE version
          /\ columns' = IF r.kind = "ok" THEN r.columns ELSE columns
          /\ first_time' = IF r.kind \in {"skip", "packet"} THEN r.first_time
                           ELSE first_time
          /\ trc_packets' = IF r.kind = "packet" THEN Append(trc_packets, r.packet)
                            ELSE trc_packets
          /\ returned' = CASE r.kind = "err" -> [tag |-> "Err", error |-> r.error]
                           [] r.kind = "panic" -> [tag |-> "panic"]
                           [] OTHER -> returned
          /\ rows' = IF r.kind = "packet"
                     THEN Append(rows, [kind |-> l.kind, frame |-> l.frame,
                                        ns |-> FileNs(l.text)])
                     ELSE rows
    /\ expected' = IF l.kind \in FrameKinds THEN Append(expected, l.frame)
                   ELSE expected
    /\ fault' = IF fault = None /\ l.kind \notin WellFormedKinds THEN Some(l.kind)
                ELSE fault
    /\ declared' = CASE l.kind \in {"version", "version10"} ->
                            [declared EXCEPT !.dialect = CHOOSE d \in l.dialects : TRUE]
                     [] l.kind = "columns" -> [declared EXCEPT !.layout = l.layout]
                     [] OTHER -> declared
    /\ UNCHANGED <<sync_time, overflow_checks>>
    /\ UNCHANGED <<statsVars, steadyVars>>
    /\ UNCHANGED <<decodeVars, callVars, appVars>>

\* line 254: the lines are exhausted
ParseEnd ==
    /\ returned = Running
    /\ returned' = [tag |-> "Ok", packets |-> trc_packets, version |-> version]
    /\ UNCHANGED <<version, columns, first_time, trc_packets, sync_time,
                   overflow_checks, expected, rows, fault, declared>>
    /\ UNCHANGED <<statsVars, steadyVars>>
    /\ UNCHANGED <<decodeVars, callVars, appVars>>

ParseNext ==
    \/ \E l \in Lines : ParseLine(l)
    \/ ParseEnd

ParseSpec == ParseInit /\ [][ParseNext]_vars

----------------------------------------------------------------------------
(* Traces of well-formed rows only, in every dialect and, for 2.x, under   *)
(* each of the four COLUMNS combinations: frames with an empty payload,    *)
(* with a data token that is no number, with identifier tokens of 3, 4, 5  *)
(* and 8 characters, and the rows a reader passes over.                    *)

RowFormats ==
    { [dialects |-> {"V1_0"}, layout |-> <<FALSE, FALSE>>],
      [dialects |-> {"V1_1"}, layout |-> <<FALSE, FALSE>>],
      [dialects |-> {"V1_3"}, layout |-> <<FALSE, FALSE>>] }
    \cup { [dialects |-> {"V2_0", "V2_1"}, layout |-> <<b, r>>] : b, r \in BOOLEAN }

\* a row that declares more than 8 bytes: a CAN FD row of data length code 9
\* with its 12 bytes in 2.x, a row of data length 9 with 9 bytes in 1.x
LongRowOf(f) ==
    IF Is2x(f)
    THEN Line(f, "long", RowText(f, "t11", "FD", "0102", "9",
                                 "00 01 02 03 04 05 06 07 08 09 0A 0B"),
              [id |-> 258, extended |-> FALSE,
               bytes |-> <<0, 1, 2, 3, 4, 5, 6, 7, 8, 9, 10, 11>>])
    ELSE Line(f, "long", RowText(f, "t11", DataType(f), "0102", "9",
                                 "00 01 02 03 04 05 06 07 08"),
              [id |-> 258, extended |-> FALSE,
               bytes |-> <<0, 1, 2, 3, 4, 5, 6, 7, 8>>])

\* the rows every format has
FrameRowsOf(f) ==
    { Line(f, "valid", RowText(f, "t17", DataType(f), "00000101", "8",
                               "00 00 00 00 00 00 00 55"),
           [id |-> 257, extended |-> TRUE, bytes |-> <<0, 0, 0, 0, 0, 0, 0, 85>>]),
      Line(f, "valid", RowText(f, "t12", DataType(f), "0101", "2", "1F ff"),
           [id |-> 257, extended |-> FALSE, bytes |-> <<31, 255>>]),
      Line(f, "zerolen", RowText(f, "t12", DataType(f), "00100", "0", ""),
           [id |-> 256, extended |-> TRUE, bytes |-> << >>]),
      Line(f, "badbyte", RowText(f, "t17", DataType(f), "7FF", "3", "1F zz 100"),
           [id |-> 2047, extended |-> FALSE, bytes |-> <<31, 0, 0>>]),
      Line(f, "allones",
           IF Is2x(f) THEN RowText(f, "t10", "DT", "FFFFFFFF", "4", "00 00 00 08")
           ELSE StatusText(f), NoFrame),
      Line(f, "rtr", RowText(f, "t11", DataType(f), "0100", "1", "RTR"), NoFrame) }

\* the rows of the 2.x dialects that are no data rows: a status row, a row
\* of fewer than 6 tokens, and an error-counter row of 6 tokens
SkipRowsOf(f) ==
    IF ~Is2x(f) THEN {}
    ELSE { Line(f, "status", StatusText(f), NoFrame),
           Line(f, "few", "      3     11.000 DT 0100 Tx", NoFrame),
           Line(f, "counters", "      4     11.000 EC          Rx    02 02", NoFrame) }

RowLines ==
    { l \in OtherLines : l.kind \in {"blank", "comment", "version"} }
    \cup { Line([dialects |-> {"V2_0", "V2_1"}, layout |-> <<FALSE, FALSE>>],
                "columns", ";$COLUMNS=N,O,T,I,d,l,D", NoFrame),
           Line([dialects |-> {"V2_0", "V2_1"}, layout |-> <<FALSE, TRUE>>],
                "columns", ";$COLUMNS=N,O,T,I,d,R,l,D", NoFrame),
           Line([dialects |-> {"V2_0", "V2_1"}, layout |-> <<TRUE, FALSE>>],
                "columns", ";$COLUMNS=N,O,T,B,I,d,l,D", NoFrame),
           Line([dialects |-> {"V2_0", "V2_1"}, layout |-> <<TRUE, TRUE>>],
                "columns", ";$COLUMNS=N,O,T,B,I,d,R,L,D", NoFrame) }
    \cup UNION {FrameRowsOf(f) \cup SkipRowsOf(f) : f \in RowFormats}

RowNext ==
    \/ \E l \in RowLines : ParseLine(l)
    \/ ParseEnd

RowSpec == ParseInit /\ [][RowNext]_vars

\* traces of rows of 8 bytes, rows without data and rows of more than 8 bytes
LongLines ==
    { l \in RowLines : l.kind \in {"version", "columns", "zerolen"}
                          \/ (l.kind = "valid" /\ Len(l.frame.bytes) = 8) }
    \cup {LongRowOf(f) : f \in RowFormats}

LongNext ==
    \/ \E l \in LongLines : ParseLine(l)
    \/ ParseEnd

LongSpec == ParseInit /\ [][LongNext]_vars

----------------------------------------------------------------------------
(* Stats::signal_text: the field of the payload *)

RECURSIVE SumOf(_, _)
\* f[0] + ... + f[n - 1]
SumOf(f, n) == IF n = 0 THEN 0 ELSE f[n - 1] + SumOf(f, n - 1)

\* bit i of bytes.view_bits::<Lsb0>(): bit 0 of a byte comes first
BitLsb0(bs, i) == (bs[(i \div 8) + 1] \div (2 ^ (i % 8))) % 2

\* bit i of bytes.view_bits::<Msb0>(): bit 7 of a byte comes first
BitMsb0(bs, i) == (bs[(i \div 8) + 1] \div (2 ^ (7 - (i % 8)))) % 2

\* [from .. from + n).load_le() on the Lsb0 view: the first bit of the
\* slice is the least significant
LoadLe(bs, from, n) == SumOf([j \in 0..(n - 1) |-> BitLsb0(bs, from + j) * (2 ^ j)], n)

\* the big-endian load reads the first bit of the slice as the least
\* significant
LoadBe_Reversed(bs, from, n) ==
    SumOf([j \in 0..(n - 1) |-> BitMsb0(bs, from + j) * (2 ^ j)], n)

\* [from .. from + n).load_be() on the Msb0 view: the first bit of the
\* slice is the most significant
LoadBe(bs, from, n) ==
    SumOf([j \in 0..(n - 1) |-> BitMsb0(bs, from + j) * (2 ^ (n - 1 - j))], n)

\* load::<i64>: the most significant bit of the slice is extended as the sign
SignExtend(raw, n) == IF raw >= 2 ^ (n - 1) THEN raw - 2 ^ n ELSE raw

\* the slice of lines 210-211 and 213-214 (221-225 for a signed signal)
\* exists and holds 1 to 64 bits; else the index or the load panics.  For
\* the big-endian slice start - (size - 1) is a usize: below 0 it panics
\* with overflow checks and wraps to a start beyond the end without.
SliceInRange(sg, bs) ==
    /\ sg.signal_size >= 1 /\ sg.signal_size <= 64
    /\ IF sg.byte_order = "LittleEndian"
       THEN sg.start_bit + sg.signal_size <= 8 * Len(bs)
       ELSE sg.start_bit >= sg.signal_size - 1 /\ sg.start_bit + 1 <= 8 * Len(bs)

\* lines 208-217 and 219-228: the integer read from the payload
RawValue(sg, bs) ==
    LET raw == IF sg.byte_order = "LittleEndian"
               THEN LoadLe(bs, sg.start_bit, sg.signal_size)
               ELSE LoadBe(bs, sg.start_bit - (sg.signal_size - 1), sg.signal_size)
    IN IF sg.value_type = "Signed" THEN SignExtend(raw, sg.signal_size) ELSE raw

----------------------------------------------------------------------------
(* Stats::signal_text: the text *)

Abs(x) == IF x < 0 THEN 0 - x ELSE x

\* the number of bits of n > 0
RECURSIVE BitLen(_)
BitLen(n) == IF n = 0 THEN 0 ELSE 1 + BitLen(n \div 2)

\* `raw as f32`: an integer of more than 24 bits is rounded to 24, ties to
\* the even neighbour
AsF32(v) ==
    LET a == Abs(v)
        unit == 2 ^ (BitLen(a) - 24)
        q == a \div unit
        r == a % unit
        m == IF 2 * r > unit \/ (2 * r = unit /\ q % 2 = 1) THEN q + 1 ELSE q
    IN IF BitLen(a) <= 24 THEN v
       ELSE IF v < 0 THEN 0 - (m * unit) ELSE m * unit

\* the decimal digits of n >= 0, as format!("{}", n) writes them
RECURSIVE DecString(_)
DecString(n) ==
    IF n < 10 THEN Char(DecDigits, n + 1)
    ELSE DecString(n \div 10) \o Char(DecDigits, (n % 10) + 1)

\* format!("{:.3}", n / d) for d > 0: three decimals, the nearest, ties to
\* the even neighbour
Fixed3(n, d) ==
    LET a == Abs(n) * 1000
        q == a \div d
        r == a % d
        t == IF 2 * r > d \/ (2 * r = d /\ q % 2 = 1) THEN q + 1 ELSE q
        frac == t % 1000
    IN (IF n < 0 THEN "-" ELSE "")
       \o DecString(t \div 1000) \o "."
       \o Char(DecDigits, (frac \div 100) + 1)
       \o Char(DecDigits, ((frac \div 10) % 10) + 1)
       \o Char(DecDigits, (frac % 10) + 1)

\* `x as u64` of a float that is a whole number: a negative one gives 0
AsU64(x) == IF x < 0 THEN 0 ELSE x

\* the text has three decimals only when the factor is not 1
IsScaled_FactorOnly(sg) == sg.factor.num # sg.factor.den

\* line 232: factor != 1.0 || offset < 0.0.  The factor is the fraction
\* num / den, the offset a whole number.
IsScaled(sg) == sg.factor.num # sg.factor.den \/ sg.offset < 0

\* lines 232-238.  value * factor + offset is computed on the fraction; in
\* f32 it is the same to the third decimal for the factors 1, 2, 1/2 and
\* 1/10 and the whole-number offsets of the model.
FormatValue(value, sg) ==
    IF IsScaled(sg)
    THEN Fixed3(value * sg.factor.num + sg.offset * sg.factor.den, sg.factor.den)
         \o sg.unit
    ELSE DecString(AsU64(value + sg.offset)) \o sg.unit

Text(t) == [kind |-> "text", text |-> t]

\* line 204
MultiplexedText == "<multiplexed>"

\* Stats::signal_text(&self, _msg, sig, packet), lines 191-239
signal_text(sg, bs) ==
    IF sg.multiplexer_indicator \notin {"Plain", "Multiplexor"}
    THEN Text(MultiplexedText)
    ELSE IF ~SliceInRange(sg, bs) THEN Panicked
    ELSE Text(FormatValue(AsF32(RawValue(sg, bs)), sg))

----------------------------------------------------------------------------
(* Calls of signal_text: a signal of the database and a payload that holds *)
(* a chosen integer in the field of the signal.                            *)

\* the widest field
MaxWidth == 9

\* bytes of the payload
PayloadLen == 3

\* the first bit of the field in the view of the payload
FirstBits == {0, 5, 8}

\* the integers a field of w bits is given
FieldValues(w, value_type) ==
    IF value_type = "Unsigned"
    THEN {v \in {0, 1, 100, 2 ^ (w - 1), 2 ^ w - 1} : v < 2 ^ w}
    ELSE {v \in {0, 1, 100, -1, -100, 2 ^ (w - 1) - 1, 0 - 2 ^ (w - 1)} :
             v >= 0 - 2 ^ (w - 1) /\ v < 2 ^ (w - 1)}

\* factor and offset of the signals
Scalings ==
    { [factor |-> [num |-> 1, den |-> 1], offset |-> 0],
      [factor |-> [num |-> 1, den |-> 1], offset |-> 10],
      [factor |-> [num |-> 1, den |-> 1], offset |-> -40],
      [factor |-> [num |-> 1, den |-> 10], offset |-> 0],
      [factor |-> [num |-> 1, den |-> 2], offset |-> 10],
      [factor |-> [num |-> 2, den |-> 1], offset |-> -40] }

\* can_dbc::MultiplexIndicator
MultiplexIndicators ==
    {"Plain", "Multiplexor", "MultiplexedSignal", "MultiplexorAndMultiplexedSignal"}

Units == {"rpm"}

\* the signal of the given byte order whose field starts at bit `first` of
\* the view: start_bit is the first bit of a little-endian field and the
\* last bit of a big-endian one
SignalAt(order, first, w, value_type, scaling, mux, unit) ==
    [start_bit |-> IF order = "LittleEndian" THEN first ELSE first + w - 1,
     signal_size |-> w,
     byte_order |-> order,
     value_type |-> value_type,
     factor |-> scaling.factor,
     offset |-> scaling.offset,
     unit |-> unit,
     multiplexer_indicator |-> mux]

\* v in two's complement of w bits
TwosComplement(v, w) == IF v < 0 THEN v + 2 ^ w ELSE v

\* bit i of the view of a payload that holds v in the field of sg and
\* `fill` in every other bit
FieldBit(sg, v, fill, i) ==
    LET u == TwosComplement(v, sg.signal_size)
        first == IF sg.byte_order = "LittleEndian" THEN sg.start_bit
                 ELSE sg.start_bit - (sg.signal_size - 1)
        k == i - first
    IN IF k < 0 \/ k >= sg.signal_size THEN fill
       ELSE IF sg.byte_order = "LittleEndian" THEN (u \div (2 ^ k)) % 2
       ELSE (u \div (2 ^ (sg.signal_size - 1 - k))) % 2

\* the payload: the byte of the bits 8k .. 8k + 7 of the view, in the bit
\* order of the view
PayloadOf(sg, v, fill) ==
    [k \in 1..PayloadLen |->
        SumOf([b \in 0..7 |->
                  FieldBit(sg, v, fill, 8 * (k - 1) + b)
                  * (IF sg.byte_order = "LittleEndian" THEN 2 ^ b ELSE 2 ^ (7 - b))],
              8)]

\* the signal of the other byte order over the same bits of the view
MirrorOf(sg) ==
    IF sg.byte_order = "LittleEndian"
    THEN [sg EXCEPT !.byte_order = "BigEndian",
                    !.start_bit = sg.start_bit + sg.signal_size - 1]
    ELSE [sg EXCEPT !.byte_order = "LittleEndian",
                    !.start_bit = sg.start_bit - (sg.signal_size - 1)]

DecodeInit ==
    /\ \E order \in {"LittleEndian", "BigEndian"}, first \in FirstBits,
          w \in 1..MaxWidth, value_type \in {"Unsigned", "Signed"},
          scaling \in Scalings, mux \in MultiplexIndicators, unit \in Units,
          fill \in {0, 1} :
          \E v \in FieldValues(w, value_type) :
             /\ sig = SignalAt(order, first, w, value_type, scaling, mux, unit)
             /\ encoded = [value |-> v, fill |-> fill]
             /\ sig_bytes = PayloadOf(sig, v, fill)
    /\ sig_text = None /\ mirror_text = None
    \* Stats::default(): signal_text reads nothing of self
    /\ baud = 0 /\ bytes = 0 /\ packets = 0 /\ load = 0 /\ pps = 0
    /\ messages = << >> /\ ids = << >>
    /\ bytes_accum = 0 /\ packet_accum = 0
    /\ dbcs = << >> /\ sorted = FALSE /\ ordering = << >>
    /\ now = 0 /\ time = None /\ seen = {}
    /\ steadyFrames = 0 /\ steadyBytes = 0 /\ phase = "free" /\ ticksAtSteady = 0
    /\ NoCall /\ NoApp
    /\ NoParse

\* signal_text(msg, sig, packet)
SignalText ==
    /\ sig_text = None
    /\ sig_text' = Some(signal_text(sig, sig_bytes))
    /\ UNCHANGED <<sig, sig_bytes, encoded, mirror_text>>
    /\ UNCHANGED <<statsVars, steadyVars, parseVars, callVars, appVars>>

\* signal_text for the signal of the other byte order, on the payload that
\* holds the same integer in its field
SignalTextMirror ==
    /\ mirror_text = None
    /\ mirror_text' = Some(signal_text(MirrorOf(sig),
                                       PayloadOf(MirrorOf(sig), encoded.value,
                                                 encoded.fill)))
    /\ UNCHANGED <<sig, sig_bytes, encoded, sig_text>>
    /\ UNCHANGED <<statsVars, steadyVars, parseVars, callVars, appVars>>

DecodeNext == SignalText \/ SignalTextMirror

DecodeSpec == DecodeInit /\ [][DecodeNext]_vars

----------------------------------------------------------------------------
(* Claims *)

\* C1: after any sequence of process_packet calls, ordering lists every slot
\* index 0..n-1 exactly once (n = number of distinct identifiers seen) and
\* the identifiers of the slots it lists are strictly ascending.
C1_OrderingSorted ==
    LET n == Cardinality(seen)
    IN /\ Len(messages) = n
       /\ Len(ordering) = n
       /\ {ordering[k] : k \in 1..Len(ordering)} = 0..(n - 1)
       /\ {messages[i].current.id : i \in 1..Len(messages)} = seen
       /\ \A k \in 1..(Len(ordering) - 1) :
             messages[ordering[k] + 1].current.id < messages[ordering[k + 1] + 1].current.id

\* identifiers registered out of ascending order, one of them repeated
C1_Witness ==
    /\ Len(messages) >= 2
    /\ ordering[1] # 0
    /\ \E i \in 1..Len(messages) : messages[i].count >= 2

\* a message with no frame since the last applied tick whose frame is older
\* than min(3 x period, 2 s) at the instant t
Expired(m, t) ==
    /\ m.count_accum = 0
    /\ m.current.time # None
    /\ t - m.current.time[1] > Min(3 * m.delta, 2000)

\* C2: an applied tick sets the staleness of every such message to the
\* (non-zero) time elapsed since its current frame and its period to zero,
\* and a process_packet for an identifier sets its staleness to zero.
C2_StaleThenFresh ==
    [][ /\ (time' # time) =>
              \A i \in 1..Len(messages) :
                  Expired(messages[i], now) =>
                      /\ messages'[i].missing = now - messages[i].current.time[1]
                      /\ messages'[i].missing > 0
                      /\ messages'[i].delta = 0
        /\ (packets' = packets + 1) =>
              \A i \in 1..Len(messages) :
                  (messages'[i].count = messages[i].count + 1) => messages'[i].missing = 0
      ]_vars

\* a message that was given a period by a tick, then marked stale by a later
\* tick, then received a frame: its second frame is the only one of this
\* tick, its period is still the zero the stale mark left, its staleness is
\* back to zero
C2_Witness ==
    \E i \in 1..Len(messages) :
        /\ messages[i].count = 2
        /\ messages[i].count_accum = 1
        /\ messages[i].current.time # None
        /\ messages[i].delta = 0
        /\ messages[i].missing = 0
        /\ time # Some(0)

\* C3: under a steady input, after finitely many applied ticks pps equals
\* the frames per tick and load equals 100 x (10 b + 5) / baud.
C3_Converges == <>(phase = "arrive" /\ AtSteady)

\* C4: once pps and load are at the steady value, every further applied tick
\* with the same per-tick counts leaves them there.
C4_Stable == [][AtSteady => (pps' = steadyFrames /\ load' = SteadyLoad)]_vars

\* two ticks were applied at the steady value of a non-empty input
C4_Witness ==
    /\ ticksAtSteady >= 2
    /\ steadyFrames > 0 /\ steadyBytes > 0
    /\ AtSteady

----------------------------------------------------------------------------
(* Claims about TrcParser::new_from_lines *)

\* what a frame of the result says about the row it came from
FrameOf(p) == [id |-> p.id, extended |-> p.extended, bytes |-> p.bytes]

FramesOf(ps) == [k \in 1..Len(ps) |-> FrameOf(ps[k])]

\* C5: in every dialect a trace of N valid rows and K rows a reader may skip
\* (status rows, RTR rows, rows with too few columns), in any order, parses
\* successfully into exactly the N frames of the valid rows, in file order.
\* Stated for sync_time = false, where no time is subtracted.
C5_ValidRowsInOrder ==
    (fault = None /\ ~sync_time /\ returned.tag # "running")
        => /\ returned.tag = "Ok"
           /\ FramesOf(returned.packets) = expected

\* C6: with sync_time the first frame of the result has offset 0, whatever
\* rows were skipped before it.
C6_FirstFrameAtZero ==
    (sync_time /\ Len(trc_packets) >= 1) => trc_packets[1].time = Some(0)

\* C7: with sync_time every frame after the first has the offset of its own
\* time in the file from that of the first frame, whatever the order of the
\* times; the subtraction does not wrap.  Stated for the parses whose
\* reference is the time of the first frame.
C7_LaterFramesRelative ==
    (sync_time /\ Len(rows) >= 1 /\ first_time = Some(rows[1].ns))
        => \A k \in 2..Len(trc_packets) :
              /\ ~Wrapped(trc_packets[k].time[1])
              /\ trc_packets[k].time = Some(rows[k].ns - rows[1].ns)

\* C8: a ;$FILEVERSION directive naming one of 1.0, 1.1, 1.3, 2.0, 2.1 is
\* accepted and selects that dialect; without the directive the dialect is
\* 1.0.
C8_VersionSelected ==
    fault \in {None, Some("version10")}
        => /\ returned.tag # "Err"
           /\ version = declared.dialect

\* C9: a directive without "=" or a ;$FILEVERSION with an unknown value ends
\* the parse with an error that carries no frames, whatever rows came before.
C9_BadDirectiveFails ==
    fault = Some("baddirective")
        => /\ returned.tag = "Err"
           /\ "packets" \notin DOMAIN returned

\* a bad directive was met after a frame had been read
C9_Witness ==
    /\ fault = Some("baddirective")
    /\ Len(trc_packets) >= 1
    /\ returned.tag = "Err"

LastPacket(ps) == ps[Len(ps)]

\* the step reads line l and passes over it
PassedOver(l) ==
    ParseLine(l) => /\ trc_packets' = trc_packets
                    /\ returned' = Running
                    /\ version' = version /\ columns' = columns

\* C11: in 2.0 and 2.1, under every COLUMNS combination, a row of fewer
\* than 6 tokens, a row with RTR right after the data length and a row whose
\* type is neither DT nor FD is passed over: no frame, no error, and the
\* parse goes on.
C11_Rows2xSkipped ==
    [][\A l \in RowLines :
          (l.kind \in {"few", "rtr", "status", "counters"}
             /\ declared.dialect \in {"V2_0", "V2_1"}) => PassedOver(l)]_vars

\* C12: in every dialect a valid row with data length 0 and no data tokens
\* gives a frame with an empty payload.  Stated for sync_time = false, where
\* no time is subtracted.
C12_ZeroLengthFrame ==
    [][\A l \in RowLines :
          (l.kind = "zerolen" /\ ~sync_time /\ ParseLine(l))
             => /\ returned' = Running
                /\ Len(trc_packets') = Len(trc_packets) + 1
                /\ LastPacket(trc_packets').bytes = << >>]_vars

C14_ExtendedByLength ==
    \A k \in 1..Len(trc_packets) :
        /\ trc_packets[k].extended = rows[k].frame.extended
        /\ trc_packets[k].id = rows[k].frame.id

\* the tokens 0101 and 00000101 gave two frames of one identifier, one
\* standard and one extended
C14_Witness ==
    /\ Len(trc_packets) = 2
    /\ trc_packets[1].id = trc_packets[2].id
    /\ trc_packets[1].extended # trc_packets[2].extended

\* C15: a data token that is no base-16 byte decodes to 0: the row
\* "3  1F zz 100" gives a frame with the 3 bytes 1F 00 00 and the parse
\* does not fail.
C15_BadByteIsZero ==
    [][\A l \in RowLines :
          (l.kind = "badbyte" /\ ParseLine(l))
             => /\ returned' = Running
                /\ Len(trc_packets') = Len(trc_packets) + 1
                /\ LastPacket(trc_packets').bytes = <<31, 0, 0>>]_vars

\* a frame of such a row is part of a successful parse
C15_Witness ==
    /\ returned.tag = "Ok"
    /\ \E k \in 1..Len(rows) : rows[k].kind = "badbyte"

----------------------------------------------------------------------------
(* Claims about Stats::signal_text *)

\* signal_text was called and neither panicked nor met a multiplexed signal
Decoded ==
    /\ sig_text # None
    /\ sig_text[1].kind = "text"
    /\ sig.multiplexer_indicator \in {"Plain", "Multiplexor"}

\* the text before the unit label
Value(t) == SubSeq(t, 1, Len(t) - Len(sig.unit))

\* the decimal string of an integer
IntString(v) == IF v < 0 THEN "-" \o DecString(0 - v) ELSE DecString(v)

\* C16: signal_text returns the empty string for a signal that is neither
\* plain nor the multiplexor, so that the table shows nothing for it.
C16_MultiplexedIsEmpty ==
    (sig_text # None /\ sig.multiplexer_indicator \notin {"Plain", "Multiplexor"})
        => sig_text = Some(Text(""))

\* C17: with factor 1 and offset 0, for either byte order and signedness,
\* any start bit and width, the text is the decimal string of the integer V
\* the field holds, followed by the unit, for every V of that width, the
\* negative ones of a signed signal included.
C17_RoundTrip ==
    (sig_text # None
       /\ sig.multiplexer_indicator \in {"Plain", "Multiplexor"}
       /\ sig.factor.num = sig.factor.den /\ sig.offset = 0)
        => sig_text = Some(Text(IntString(encoded.value) \o sig.unit))

\* C18: a little-endian signal over bits [start, start + w) of the LSB-first
\* view and a big-endian signal over bits [start - (w - 1), start] of the
\* MSB-first view, each on the payload that holds V in its layout, give the
\* same text for the same factor, offset and unit.
C18_ByteOrdersAgree ==
    (sig_text # None /\ mirror_text # None) => sig_text = mirror_text

\* both orders read a field of 9 bits that crosses a byte and holds 100
\* among bits that are set
C18_Witness ==
    /\ Decoded /\ mirror_text # None
    /\ sig.signal_size = 9 /\ sig.start_bit % 8 # 0
    /\ encoded = [value |-> 100, fill |-> 1]
    /\ sig.factor.num = 1 /\ sig.factor.den = 1 /\ sig.offset = 0
    /\ mirror_text = Some(Text("100" \o sig.unit))

\* the text has the form digits "." three digits, with a sign if negative
HasThreeDecimals(t) ==
    /\ Len(t) >= 5
    /\ Char(t, Len(t) - 3) = "."
    /\ \A i \in 1..Len(t) :
          \/ IsDecDigit(Char(t, i))
          \/ i = Len(t) - 3
          \/ (i = 1 /\ Char(t, i) = "-")

\* the number such a text stands for, in thousandths
Thousandths(t) ==
    LET neg == Char(t, 1) = "-"
        whole == SubSeq(t, IF neg THEN 2 ELSE 1, Len(t) - 4)
        frac == SubSeq(t, Len(t) - 2, Len(t))
        n == DecValue(whole) * 1000 + DecValue(frac)
    IN IF neg THEN 0 - n ELSE n

----------------------------------------------------------------------------
(* Claims about the slots of Stats *)

\* C20: over any sequence of process_packet and periodic calls every
\* identifier has exactly one slot: the index it was given at first sight
\* never changes, no slot is removed, a repeated identifier adds none, and
\* there are as many slots as distinct identifiers seen.
C20_SlotsStable ==
    [][/\ \A id \in DOMAIN ids : id \in DOMAIN ids' /\ ids'[id] = ids[id]
       /\ Len(messages') >= Len(messages)
       /\ DOMAIN ids' = seen'
       /\ Len(messages') = Cardinality(seen')
       /\ \A a, b \in DOMAIN ids' : a # b => ids'[a] # ids'[b]
       /\ \A id \in DOMAIN ids' :
             /\ ids'[id] \in 0..(Len(messages') - 1)
             /\ messages'[ids'[id] + 1].current.id = id]_vars

\* two identifiers have slots, one of them came again, and a tick was
\* applied after the second was registered
C20_Witness ==
    /\ Len(messages) >= 2
    /\ \E i \in 1..Len(messages) : messages[i].count >= 2
    /\ time # None /\ time[1] > 0
    /\ \A i \in 1..Len(messages) :
          messages[i].current.time # None => messages[i].current.time[1] < time[1]

----------------------------------------------------------------------------
(* The guard of Stats::periodic *)

\* the per-tick fields of the messages
TickFields(msgs) ==
    [i \in DOMAIN msgs |->
        <<msgs[i].delta, msgs[i].missing, msgs[i].count_accum>>]

\* C21: a call of periodic made less than one second after the previous
\* applied tick, or less than one second after Stats::new, changes neither
\* load, pps, the byte and frame accumulators, nor the estimated period, the
\* staleness and the per-tick arrival count of any message.
C21_EarlyTickIsNoOp ==
    [][(Periodic /\ time # None /\ now - time[1] < 1000)
          => /\ skipped'
             /\ UNCHANGED <<load, pps, bytes_accum, packet_accum, time>>
             /\ TickFields(messages') = TickFields(messages)]_vars

\* a call is skipped half a second after an applied tick, with frames counted
\* since that tick
C21_Witness ==
    /\ skipped
    /\ time # None /\ time[1] >= 1000 /\ now - time[1] = 500
    /\ packet_accum > 0 /\ bytes_accum > 0
    /\ \E i \in DOMAIN messages : messages[i].count_accum > 0

----------------------------------------------------------------------------
(* The definition table of a slot *)

\* the tables loaded before table d that hold the identifier
EarlierTables(d, id) == {i \in 0..(d - 1) : id \in dbcs[i + 1]}

\* C25: the slot registered for a new identifier is matched to the index of
\* the earliest loaded table that holds the identifier, or to none when no
\* loaded table holds it; no call of process_packet or periodic changes the
\* match of a slot; dbc_message gives no message for a slot without a match
\* and the definition of the matched table for a slot with one.
C25_FirstTableWins ==
    [][/\ \A i \in DOMAIN messages : messages'[i].dbc = messages[i].dbc
       /\ \A i \in DOMAIN messages' \ DOMAIN messages :
             LET m == messages'[i]
                 id == m.current.id
             IN /\ id \notin seen
                /\ IF \E d \in 1..Len(dbcs) : id \in dbcs[d]
                   THEN /\ m.dbc # None
                        /\ id \in dbcs[m.dbc[1] + 1]
                        /\ EarlierTables(m.dbc[1], id) = {}
                   ELSE m.dbc = None
       /\ \A i \in DOMAIN messages' :
             LET m == messages'[i]
             IN IF m.dbc = None
                THEN dbc_message(dbcs', m) = None
                ELSE dbc_message(dbcs', m) = Some([table |-> m.dbc[1],
                                                   id |-> m.current.id])]_vars

\* all three identifiers are registered with two tables loaded, the second
\* holding both identifiers of the first, and a tick has been applied since
C25_Witness ==
    /\ Len(dbcs) = 2
    /\ DOMAIN ids = {0, 256, 257}
    /\ messages[ids[0] + 1].dbc = None
    /\ messages[ids[256] + 1].dbc = Some(0)
    /\ messages[ids[257] + 1].dbc = Some(1)
    /\ dbc_message(dbcs, messages[ids[0] + 1]) = None
    /\ time # None /\ time[1] >= 1000

----------------------------------------------------------------------------
(* The frames of the trace parser: payload and time *)

\* C26: every frame the trace parser emits has a payload of 0 to 8 bytes,
\* whatever data length its row declares and whether its type is DT or FD.
C26_PayloadAtMost8 ==
    \A k \in 1..Len(trc_packets) : Len(trc_packets[k].bytes) \in 0..8

\* C27: with sync_time false the time of every frame is the instant
\* start_time, taken once before the loop, plus the nanoseconds of the time
\* column of its own row, whatever rows came before it and whatever
\* first_time holds.  Times are counted from start_time.
C27_TimesPassThrough ==
    ~sync_time =>
        \A k \in 1..Len(trc_packets) : trc_packets[k].time = Some(rows[k].ns)

\* without sync_time a row of 17.4 ms gave the first frame and a row of
\* 12.7 ms the second, after an earlier row that gave no frame had set
\* first_time
C27_Witness ==
    /\ ~sync_time
    /\ Len(trc_packets) = 2
    /\ rows[1].ns > rows[2].ns
    /\ first_time # None /\ first_time[1] < rows[2].ns
    /\ trc_packets[2].time = Some(rows[2].ns)

----------------------------------------------------------------------------
(* The arithmetic of an applied tick *)

\* C30: an applied call of periodic never fails arithmetically: for every
\* baud rate Stats::new accepts, 0 included, and every value of the byte and
\* frame accumulators, the updates of load and pps complete without a
\* division by zero and without passing u32::MAX.
C30_TickArithmeticSafe == arith \in {"none", "ok"}

----------------------------------------------------------------------------
(* Staleness over an unbounded run *)

\* every registered message is marked stale
AllStale == \A i \in DOMAIN messages : messages[i].missing # 0

\* C29: a registered message that receives no further frames is marked
\* stale (missing is not zero) after finitely many applied ticks, whatever
\* its estimated period and whether or not its current frame carries a
\* timestamp.  No frame arrives once MaxPackets frames were handed over.
C29_StaleEventually == (packets = MaxPackets) ~> AllStale

----------------------------------------------------------------------------
(* The consumer loop *)

\* the loop has just called periodic of every channel and every call was
\* applied
AllApplied == \A c \in Channels : outcome[c] = "applied"

\* C24: with no frames and no key events arriving the consumer loop wakes
\* from recv_timeout after at most one second and keeps applying periodic
\* to every channel: from every moment on, a tick of every channel is
\* applied again.
C24_IdleLoopKeepsTicking ==
    /\ [](waited <= 1000)
    /\ []((quiet /\ loop_pc # "exit") => <>AllApplied)

\* the loop blocked for a full second with nothing arriving and then applied
\* the tick of every channel
C24_Witness ==
    /\ quiet /\ waited = 1000
    /\ loop_pc = "draw"
    /\ AllApplied

\* C28: every call of periodic the consumer loop issues is applied by the
\* engine: the loop calls only when a second has passed since the instant it
\* stored in stats_time, and the guard of periodic, measured from the instant
\* the engine read at its previous applied tick, never returns early.
C28_LoopTicksApplied == \A c \in Channels : outcome[c] # "rejected"

----------------------------------------------------------------------------
(* The threads *)

\* the sequence numbers, in the sending thread, of the packets of source p
\* that reached process_packet, in the order they reached it
HandledOf(p) ==
    LET own == SelectSeq(handled, LAMBDA x : x.source = p)
    IN [k \in 1..Len(own) |-> own[k].seq]

\* C22: the frames one producer thread sent reach process_packet in the
\* order that thread sent them, whatever the other producer, the input
\* thread, the forwarding thread and the consumer do in between: the frames
\* of source p that were handled are its first, second, ... frame, in that
\* order.
C22_OrderPerProducer ==
    \A p \in Sources : HandledOf(p) = [k \in 1..Len(HandledOf(p)) |-> k]

\* three frames of the replay thread were handled with a frame of the
\* adapter thread between them, and a key event went through the event
\* queue as well
C22_Witness ==
    /\ Len(HandledOf(TrcSource)) = 3
    /\ keys = 1 /\ event_queue = << >>
    /\ \E i, j, k \in 1..Len(handled) :
          /\ i < j /\ j < k
          /\ handled[i].source = TrcSource
          /\ handled[j].source = SocketCanSource
          /\ handled[k].source = TrcSource

\* C23: when the send of a producer thread fails because the receiver of
\* the packet channel is gone, that thread ends: it is not running after a
\* failed send, and so it fails at most once.
C23_FailedSendEndsThread ==
    \A p \in Sources :
        failures[p] > 0 => (producers[p].pc = "ended" /\ failures[p] = 1)

----------------------------------------------------------------------------
(* Claims about what an applied tick computes *)

\* the estimated period of every slot
Deltas(msgs) == [i \in DOMAIN msgs |-> msgs[i].delta]

\* C31: the estimated period of a message is changed only by an applied
\* tick: process_packet leaves the period of every slot it finds as it was,
\* so does the passing of time and so does a call of periodic that returns
\* at its guard, whatever the number of frames and the gaps between them.
C31_PeriodOnlyByTick ==
    [][\/ Periodic /\ TickApplies
       \/ \A i \in DOMAIN messages : Deltas(messages')[i] = Deltas(messages)[i]]_vars

\* a message whose period an applied tick set to 1000 ms took two more
\* frames half a second apart, and its period is still 1000 ms
C31_Witness ==
    \E i \in DOMAIN messages :
        /\ messages[i].delta = 1000
        /\ messages[i].count_accum = 2
        /\ messages[i].current.time # None /\ messages[i].previous.time # None
        /\ messages[i].current.time[1] - messages[i].previous.time[1] = 500

\* C32: an applied tick sets load to
\* (load + 100 * (bytes_accum * 10 + 5) / baud) / 2 and pps to
\* (pps + packet_accum) / 2, both with floor division on the values held
\* before the tick, leaves both accumulators at zero and changes neither
\* the cumulative byte total nor the cumulative frame total.
C32_TickAverages ==
    [][(Periodic /\ TickApplies)
          => /\ load' = (load + ((100 * (bytes_accum * 10 + 5)) \div baud)) \div 2
             /\ pps' = (pps + packet_accum) \div 2
             /\ bytes_accum' = 0 /\ packet_accum' = 0
             /\ UNCHANGED <<bytes, packets>>]_vars

\* two applied ticks: the first averaged three frames with 17 bytes into
\* load 8 and pps 1, the second, with nothing counted, halved them to 4
\* and 0
C32_Witness ==
    /\ time = Some(2000) /\ ~skipped
    /\ packets = 3 /\ bytes = 17
    /\ bytes_accum = 0 /\ packet_accum = 0
    /\ load = 4 /\ pps = 0

\* C33: for every message with k >= 1 arrivals since the previous applied
\* tick, an applied tick sets the estimated period to floor(1000 / k)
\* milliseconds and the per-tick arrival count to zero, and changes neither
\* the staleness nor the cumulative arrival count of the message.
C33_PeriodFromArrivals ==
    [][(Periodic /\ TickApplies)
          => \A i \in DOMAIN messages :
                LET k == messages[i].count_accum
                IN k >= 1 =>
                      /\ messages'[i].delta = 1000 \div k
                      /\ messages'[i].count_accum = 0
                      /\ messages'[i].missing = messages[i].missing
                      /\ messages'[i].count = messages[i].count]_vars

\* a tick was just applied to a message that had taken three frames since
\* Stats::new: its period is 333 ms
C33_Witness ==
    /\ time = Some(now) /\ ~skipped
    /\ \E i \in DOMAIN messages :
          /\ messages[i].delta = 333
          /\ messages[i].count = 3
          /\ messages[i].count_accum = 0

----------------------------------------------------------------------------
(* Claims about the totals of Stats *)

\* the cumulative arrival counts of the slots, and their per-tick counts
Counts(msgs) == [i \in 0..(Len(msgs) - 1) |-> msgs[i + 1].count]
Accums(msgs) == [i \in 0..(Len(msgs) - 1) |-> msgs[i + 1].count_accum]

\* C34: after any sequence of process_packet and periodic calls the
\* cumulative frame total is the number of process_packet calls, the
\* cumulative byte total is the sum of their payload lengths, the arrival
\* counts of the slots add up to the frame total, and the frame accumulator
\* is the sum of the per-tick arrival counts of the slots.
C34_TotalsAddUp ==
    /\ packets = calls
    /\ bytes = payload_sum
    /\ SumOf(Counts(messages), Len(messages)) = packets
    /\ packet_accum = SumOf(Accums(messages), Len(messages))

\* three calls with 17 payload bytes over two slots, the last of them
\* after an applied tick
C34_Witness ==
    /\ calls = 3 /\ payload_sum = 17
    /\ Len(messages) = 2
    /\ time # None /\ time[1] >= 1000
    /\ packet_accum = 1

----------------------------------------------------------------------------
(* Claims about the time column of a row *)

\* 10^k
RECURSIVE Pow10(_)
Pow10(k) == IF k = 0 THEN 1 ELSE 10 * Pow10(k - 1)

\* a decimal millisecond value digits[.digits], of at most 6 decimals, in
\* nanoseconds: 17.4 is 17400000
DecimalNs(s) ==
    LET parts == Split(s, ".")
        frac == IF Len(parts) > 1 THEN parts[2] ELSE ""
    IN (DecValue(parts[1]) * 1000000) + (DecValue(frac) * Pow10(6 - Len(frac)))

\* the step reads row l in a dialect of decimal times and takes a frame
\* from it
DecimalRowRead(l) ==
    /\ version # "V1_0"
    /\ ParseLine(l)
    /\ Len(trc_packets') = Len(trc_packets) + 1

\* C35: in the dialects 1.1, 1.3, 2.0 and 2.1 the nanoseconds of a row are
\* its time field read as a decimal number of milliseconds, fraction
\* included, times 1000000 (17.4 gives 17400000 ns): without sync_time that
\* is the time of the frame of the row, and with it the first frame sets
\* that value as the reference.
C35_DecimalTimeExact ==
    [][\A l \in RowLines :
          DecimalRowRead(l) =>
              /\ ~sync_time =>
                    LastPacket(trc_packets').time = Some(DecimalNs(TimeField(l.text)))
              /\ first_time = None =>
                    first_time' = Some(DecimalNs(TimeField(l.text)))]_vars

\* a number written in base 16, and its value
IsBase16(s) == s # "" /\ \A i \in 1..Len(s) : IsHexDigit(Char(s, i))

RECURSIVE Base16(_)
Base16(s) ==
    IF s = "" THEN 0
    ELSE (Base16(SubSeq(s, 1, Len(s) - 1)) * 16) + DigitValue(Char(s, Len(s)))

\* C36: in dialect 1.0 the nanoseconds of a row are its time field, column
\* 1, read as a base-16 integer, times 1000000: without sync_time that is
\* the time of the frame of the row, and the first row read sets it as the
\* reference; a row whose time field is no base-16 number ends the parse
\* with an error.
C36_HexTime ==
    [][\A l \in Lines :
          (version = "V1_0" /\ l.kind \in RowKinds /\ ParseLine(l)) =>
              IF IsBase16(TimeField(l.text))
              THEN /\ (Len(trc_packets') > Len(trc_packets) /\ ~sync_time) =>
                         LastPacket(trc_packets').time
                            = Some(Base16(TimeField(l.text)) * 1000000)
                   /\ (first_time = None /\ first_time' # None) =>
                         first_time' = Some(Base16(TimeField(l.text)) * 1000000)
              ELSE /\ returned'.tag = "Err"
                   /\ trc_packets' = trc_packets]_vars

\* a 1.0 trace without sync_time gave a frame at 0x11 = 17 ms and then
\* failed at a row whose time field is 0G
C36_Witness ==
    /\ version = "V1_0" /\ ~sync_time
    /\ Len(trc_packets) >= 1
    /\ trc_packets[1].time = Some(17000000)
    /\ fault = Some("badtime")
    /\ returned.tag = "Err"

----------------------------------------------------------------------------
(* Claims about the columns of a row *)

\* the identifier and data-length columns of a row of dialect d when the
\* COLUMNS value has a bus role (lay[1]) and a reserved role (lay[2])
IdColumn(d, lay) ==
    CASE d = "V1_0" -> 2
      [] d = "V1_1" -> 3
      [] d = "V1_3" -> 4
      [] OTHER -> IF lay[1] THEN 4 ELSE 3

DlcColumn(d, lay) ==
    CASE d = "V1_0" -> 3
      [] d = "V1_1" -> 4
      [] d = "V1_3" -> 6
      [] OTHER -> CASE lay = <<FALSE, FALSE>> -> 5
                    [] lay = <<FALSE, TRUE>> -> 6
                    [] lay = <<TRUE, FALSE>> -> 6
                    [] lay = <<TRUE, TRUE>> -> 7

\* the step reads row l, which stands for a frame (the row is found by the
\* frame the step adds to `expected`)
FrameRowRead(l) ==
    /\ l.kind \in FrameKinds
    /\ Len(expected') > Len(expected)
    /\ LastPacket(expected') = l.frame
    /\ ParseLine(l)

\* C37: the identifier and the data length of a frame are read at columns
\* (2, 3) in dialect 1.0, (3, 4) in 1.1, (4, 6) in 1.3, and in 2.0 and 2.1
\* at identifier column 4 when COLUMNS names a bus role and 3 otherwise,
\* with data-length column 5, 6, 6 or 7 by the bus and reserved roles; the
\* dialect and the COLUMNS value are those of the latest directives before
\* the row.  A row that stands for a frame is read without an error.
C37_ColumnsUsed ==
    [][\A l \in RowLines :
          FrameRowRead(l) =>
              /\ returned'.tag # "Err"
              /\ Len(trc_packets') > Len(trc_packets) =>
                    LET cols == SplitWhitespace(l.text)
                        p == LastPacket(trc_packets')
                    IN /\ p.id = Base16(Col(cols, IdColumn(declared.dialect,
                                                           declared.layout)))
                       /\ Len(p.bytes) = Base16(Col(cols, DlcColumn(declared.dialect,
                                                                    declared.layout)))]_vars

\* a 2.1 trace whose COLUMNS directive names a bus and a reserved role gave
\* two frames, the second with identifier 7FF and three bytes
C37_Witness ==
    /\ version = "V2_1" /\ columns = "N,O,T,B,I,d,R,L,D"
    /\ declared.layout = <<TRUE, TRUE>>
    /\ Len(trc_packets) = 2
    /\ trc_packets[2].id = 2047 /\ Len(trc_packets[2].bytes) = 3

----------------------------------------------------------------------------
(* Claims about the replay thread *)

\* the packets of the replay thread that are in the packet channel, with
\* the forwarding thread or handled
ReplayPackets ==
    { q \in {ingest[i] : i \in DOMAIN ingest} \cup {held[i] : i \in DOMAIN held}
            \cup {handled[i] : i \in DOMAIN handled}
            \cup {event_queue[i].packet :
                    i \in {j \in DOMAIN event_queue : event_queue[j].event = "Packet"}} :
        q.source = TrcSource }

\* C38: the replay thread of a trace that parsed to no frame sends nothing
\* and does not fail; the replay thread of a trace of one or more frames
\* sends the frames in the order of the file, starting over after the
\* last, and never fails.
C38_ReplayOfAnyTrace ==
    LET t == producers[TrcSource]
    IN /\ t.pc # "panicked"
       /\ t.count = 0 => t.sent = 0
       /\ \A q \in ReplayPackets : q.frame = (q.seq - 1) % t.count

----------------------------------------------------------------------------
(* Claims about the channel index of a frame *)

\* C39: every frame the consumer loop takes from the event queue carries a
\* channel index below the number of channels of the application, so that
\* the lookup of its channel never fails, although the source threads send
\* from the moment their constructor starts them, before their own channel
\* and the later ones are pushed.
C39_ChannelKnown ==
    /\ app_pc # "panicked"
    /\ \A i \in DOMAIN handled : handled[i].source < channels
    /\ app_pc = "running" =>
          \A i \in DOMAIN event_queue :
              event_queue[i].event = "Packet" => event_queue[i].packet.source < channels

\* the consumer loop has handled a frame that the replay thread sent before
\* any channel was pushed and a frame that the adapter thread sent before
\* its own channel was pushed
C39_Witness ==
    /\ app_pc = "running"
    /\ \E i, j \in DOMAIN handled :
          /\ handled[i].source = TrcSource /\ handled[i].known = 0
          /\ handled[j].source = SocketCanSource /\ handled[j].known = 1
====
